---- MODULE Spec2Model ----
(***************************************************************************)
(* A model of the OPIC learning application's persistence store            *)
(* (src/Models/database.py), its content catalog                           *)
(* (src/Models/opic_structure.py) and its question generation pipeline     *)
(* (src/services/ai_service.py).                                           *)
(*                                                                         *)
(* Tables are sets of rows; every row carries the AUTOINCREMENT id SQLite  *)
(* gives it, so that two rows for one key are two distinct rows.  Text is  *)
(* a sequence of lexemes (the indivisible pieces of a JSON document or of  *)
(* a Python str() rendering), and Python values are tagged records.        *)
(***************************************************************************)
EXTENDS Integers, Sequences, FiniteSets, TLC

VARIABLES
    topic_progress,   \* table topic_progress: a set of rows
    tp_seq,           \* sqlite_sequence entry of topic_progress (last id given)
    calls,            \* log of the completed update_topic_progress calls
    questions_cache,  \* table questions_cache: a set of rows
    qc_seq,           \* sqlite_sequence entry of questions_cache
    cache_log,        \* per key, the last cache_questions call and what followed
    app_settings,     \* table app_settings: a set of rows
    as_seq,           \* sqlite_sequence entry of app_settings
    setting_log,      \* per key, the value last passed to set_setting
    now,              \* the wall clock, in hours (UTC)
    tz,               \* the local time zone's offset from UTC, in hours
    op,               \* the last store operation performed, with its arguments
    ret,              \* what the last store operation returned
    wpc,              \* position of each concurrent caller of update_topic_progress
    wcur,             \* each concurrent caller's local variable `current`
    wargs,            \* each concurrent caller's arguments
    gen_pc,           \* position of the generate_questions call
    request,          \* the GenerationRequest being served
    api_response,     \* the dictionary _call_api returned
    transport_calls,  \* number of session.post calls made so far
    result,           \* the GenerationResult returned
    prompt,           \* the prompt text last built
    prompt_request,   \* the request the last prompt was built for
    prompt_repeated,  \* the last prompt was built for the inputs of the one before
    user_progress,    \* table user_progress: a set of rows
    game_sessions,    \* table game_sessions: a set of rows
    gs_seq,           \* sqlite_sequence entry of game_sessions
    schema,           \* the tables the database file holds
    posts_in_call,    \* session.post calls made by the current generate_questions call
    api_threads,      \* position of each APITestThread started so far
    progress_bar,     \* the status bar's progress bar is visible
    wr_pending,       \* pages a committing writer has still to write to the file
    copy_pos,         \* pages of the file shutil.copy2 has copied (0: no copy running)
    backup_file,      \* the pages of the backup file
    committed_log     \* every content the database file had between two commits

vars == <<topic_progress, tp_seq, calls, questions_cache, qc_seq, cache_log,
          app_settings, as_seq, setting_log, now, tz, op, ret, wpc, wcur, wargs, gen_pc, request, api_response,
          transport_calls, result, prompt, prompt_request, prompt_repeated,
          user_progress, game_sessions, gs_seq, schema, posts_in_call,
          api_threads, progress_bar, wr_pending, copy_pos, backup_file,
          committed_log>>

progressVars == <<topic_progress, tp_seq, calls>>
cacheVars == <<questions_cache, qc_seq, cache_log>>
settingVars == <<app_settings, as_seq, setting_log>>
clockVars == <<now, tz>>
userVars == <<user_progress>>
sessionVars == <<game_sessions, gs_seq>>
schemaVars == <<schema>>
storeVars == <<progressVars, cacheVars, settingVars, clockVars, userVars,
               sessionVars, schemaVars, op, ret>>
raceVars == <<wpc, wcur, wargs>>
genVars == <<gen_pc, request, api_response, transport_calls, result,
             prompt, prompt_request, prompt_repeated, posts_in_call>>
shellVars == <<api_threads, progress_bar>>
backupVars == <<wr_pending, copy_pos, backup_file, committed_log>>

-----------------------------------------------------------------------------
(* Bounds of the model.                                                     *)

\* update_topic_progress calls in one behaviour
MaxCalls == 3
\* cache_questions calls in one behaviour
MaxCacheWrites == 2
\* hours the clock advances in one behaviour
MaxTicks == 3
\* set_setting calls in one behaviour
MaxSettingWrites == 2
\* generate_questions calls in one behaviour
MaxRequests == 2

-----------------------------------------------------------------------------
(* Python values.  A scalar's v is its str() rendering.                     *)

PyNone == [t |-> "none", v |-> "None"]
PyBool(b) == [t |-> "bool", v |-> IF b THEN "True" ELSE "False"]
PyInt(digits) == [t |-> "int", v |-> digits]
PyStr(s) == [t |-> "str", v |-> s]
PyList(items) == [t |-> "list", v |-> items]
\* a dict is the sequence of its items in insertion order
PyDict(items) == [t |-> "dict", v |-> items]
Item(k, val) == [k |-> k, val |-> val]

RECURSIVE PyEq(_, _)
\* Python's == on values: values of different types are never equal here
\* (no bool/int pair with equal numeric value occurs in the model)
PyEq(a, b) ==
    /\ a.t = b.t
    /\ CASE a.t = "list" ->
              /\ Len(a.v) = Len(b.v)
              /\ \A i \in 1..Len(a.v) : PyEq(a.v[i], b.v[i])
         [] a.t = "dict" ->
              /\ Len(a.v) = Len(b.v)
              /\ \A i \in 1..Len(a.v) :
                    /\ a.v[i].k = b.v[i].k
                    /\ PyEq(a.v[i].val, b.v[i].val)
         [] OTHER -> a.v = b.v

-----------------------------------------------------------------------------
(* Text and JSON.  A text is a sequence of lexemes; json.dumps writes one   *)
(* and json.loads parses one, failing with JSONDecodeError on anything     *)
(* that is not a JSON document.                                             *)

\* the strings that occur inside values of the model
StrUniverse ==
    {"vi", "en", "default", "true", "True", "False",
     "I _____ breakfast every morning.", "She _____ to work by bus.",
     "invalid - no blank", "have", "goes", "x", "...",
     "take", "make", "eat", "do", "go", "IM1", "IM2",
     "Daily Routines", "Family & Friends", "Travel & Vacations",
     "2026-01-02T10:00:00",
     "sentence", "correctAnswer", "explanation", "wrongAnswers",
     "level", "topic", "generated_at",
     " have ", "He _____ up at six and _____ to school.", "gets", "a", "b", "c", "d",
     "e", "note"}

\* the decimal numerals that occur in the model
NumberLexemes == {"0", "1", "5", "30"}

Quote(s) == "\"" \o s \o "\""
\* the JSON string literals of the model, and the strings they stand for
QuotedStrings == {Quote(s) : s \in StrUniverse}
UnquoteTable == [lex \in QuotedStrings |-> CHOOSE s \in StrUniverse : lex = Quote(s)]
IsQuoted(lex) == lex \in QuotedStrings
Unquote(lex) == UnquoteTable[lex]

RECURSIVE json_dumps(_), DumpElements(_, _), DumpMembers(_, _)
\* json.dumps(value)
json_dumps(value) ==
    CASE value.t = "none" -> <<"null">>
      [] value.t = "bool" -> IF value.v = "True" THEN <<"true">> ELSE <<"false">>
      [] value.t = "int"  -> <<value.v>>
      [] value.t = "str"  -> <<Quote(value.v)>>
      [] value.t = "list" -> <<"[">> \o DumpElements(value.v, 1) \o <<"]">>
      [] value.t = "dict" -> <<"{">> \o DumpMembers(value.v, 1) \o <<"}">>
DumpElements(items, i) ==
    IF i > Len(items) THEN <<>>
    ELSE (IF i > 1 THEN <<",">> ELSE <<>>)
         \o json_dumps(items[i]) \o DumpElements(items, i + 1)
DumpMembers(items, i) ==
    IF i > Len(items) THEN <<>>
    ELSE (IF i > 1 THEN <<",">> ELSE <<>>)
         \o <<Quote(items[i].k), ":">> \o json_dumps(items[i].val)
         \o DumpMembers(items, i + 1)

\* the result of parsing at a position: the value and the position after it
ParseOk(val, next) == [ok |-> TRUE, val |-> val, next |-> next]
ParseFail == [ok |-> FALSE, val |-> PyNone, next |-> 0]

RECURSIVE ParseValue(_, _), ParseElements(_, _, _), ParseMembers(_, _, _)
\* json's scanner: one value starting at lexeme i
ParseValue(text, i) ==
    IF i > Len(text) THEN ParseFail
    ELSE LET c == text[i] IN
         CASE c = "null"  -> ParseOk(PyNone, i + 1)
           [] c = "true"  -> ParseOk(PyBool(TRUE), i + 1)
           [] c = "false" -> ParseOk(PyBool(FALSE), i + 1)
           [] c \in NumberLexemes -> ParseOk(PyInt(c), i + 1)
           [] IsQuoted(c) -> ParseOk(PyStr(Unquote(c)), i + 1)
           [] c = "[" ->
                IF i + 1 <= Len(text) /\ text[i + 1] = "]"
                THEN ParseOk(PyList(<<>>), i + 2)
                ELSE ParseElements(text, i + 1, <<>>)
           [] c = "{" ->
                IF i + 1 <= Len(text) /\ text[i + 1] = "}"
                THEN ParseOk(PyDict(<<>>), i + 2)
                ELSE ParseMembers(text, i + 1, <<>>)
           [] OTHER -> ParseFail
ParseElements(text, i, acc) ==
    LET r == ParseValue(text, i) IN
    IF ~r.ok \/ r.next > Len(text) THEN ParseFail
    ELSE IF text[r.next] = "," THEN ParseElements(text, r.next + 1, Append(acc, r.val))
    ELSE IF text[r.next] = "]" THEN ParseOk(PyList(Append(acc, r.val)), r.next + 1)
    ELSE ParseFail
ParseMembers(text, i, acc) ==
    IF i + 1 > Len(text) \/ ~IsQuoted(text[i]) \/ text[i + 1] # ":" THEN ParseFail
    ELSE LET r == ParseValue(text, i + 2) IN
         IF ~r.ok \/ r.next > Len(text) THEN ParseFail
         ELSE LET acc2 == Append(acc, Item(Unquote(text[i]), r.val)) IN
              IF text[r.next] = "," THEN ParseMembers(text, r.next + 1, acc2)
              ELSE IF text[r.next] = "}" THEN ParseOk(PyDict(acc2), r.next + 1)
              ELSE ParseFail

\* json.loads(text): ok is FALSE where Python raises JSONDecodeError
json_loads(text) ==
    LET r == ParseValue(text, 1) IN
    IF r.ok /\ r.next = Len(text) + 1 THEN [ok |-> TRUE, val |-> r.val]
    ELSE [ok |-> FALSE, val |-> PyNone]

\* str(value) for a value that is neither dict nor list
py_str(value) == <<value.v>>

-----------------------------------------------------------------------------
(* The content catalog (only the first topics of each level are listed).   *)

LEVEL_ORDER == <<"IM1", "IM2", "IM3", "IH", "AL", "AM", "AH">>

LEVELS == {LEVEL_ORDER[i] : i \in 1..Len(LEVEL_ORDER)}

is_valid_level(level_code) == level_code \in LEVELS

get_level_topics(level_code) ==
    CASE level_code = "IM1" -> {"Daily Routines", "Family & Friends"}
      [] level_code = "IM2" -> {"Travel & Vacations"}
      [] level_code = "IM3" -> {"Career Development"}
      [] level_code = "IH"  -> {"Abstract Concepts"}
      [] level_code = "AL"  -> {"Academic Research"}
      [] level_code = "AM"  -> {"Specialized Professional Fields"}
      [] level_code = "AH"  -> {"Expert Professional Communication"}
      [] OTHER -> {}

-----------------------------------------------------------------------------
(* Table topic_progress.                                                    *)

\* the (level, topic) pairs the store is exercised with
StoreKeys == {<<"IM1", "Daily Routines">>, <<"IM2", "Travel & Vacations">>}

\* the scores passed to update_topic_progress
Scores == {60, 79, 80, 90}

\* the (total_questions, correct_answers) pairs passed to update_topic_progress
Counts == {<<5, 3>>, <<10, 9>>}

\* the passing threshold of update_topic_progress
PassingScore == 80

Max2(a, b) == IF a >= b THEN a ELSE b

\* the rows of a table with the given (level, topic)
RowsOf(table, level, topic) ==
    {row \in table : row.level = level /\ row.topic = topic}

\* cursor.fetchone() of a SELECT by (level, topic): the row of lowest rowid
FetchOne(table, level, topic) ==
    CHOOSE row \in RowsOf(table, level, topic) :
        \A other \in RowsOf(table, level, topic) : row.id <= other.id

\* the dictionary get_topic_progress returns when no row exists
DefaultTopicProgress ==
    [best_score |-> 0, attempts |-> 0, total_questions |-> 0,
     correct_answers |-> 0, is_completed |-> FALSE]

\* what get_topic_progress returns (the derived accuracy is left out)
get_topic_progress(table, level, topic) ==
    IF RowsOf(table, level, topic) # {}
    THEN LET row == FetchOne(table, level, topic) IN
         [best_score |-> row.best_score, attempts |-> row.attempts,
          total_questions |-> row.total_questions,
          correct_answers |-> row.correct_answers,
          is_completed |-> row.is_completed]
    ELSE DefaultTopicProgress

new_best_score_overwrite(current, score) == score
new_best_score(current, score) == Max2(current.best_score, score)

new_attempts_same(current) == current.attempts
new_attempts(current) == current.attempts + 1

is_completed_strict(best_score) == best_score > PassingScore
is_completed(best_score) == best_score >= PassingScore

\* the row update_topic_progress writes, computed from the progress it read
MergedTopicRow(id, current, level, topic, score, total_questions, correct_answers) ==
    [id |-> id, level |-> level, topic |-> topic,
     best_score |-> new_best_score(current, score),
     attempts |-> new_attempts(current),
     total_questions |-> current.total_questions + total_questions,
     correct_answers |-> current.correct_answers + correct_answers,
     is_completed |-> is_completed(new_best_score(current, score))]

InsertKeepingOld(table, row) == table \cup {row}
\* INSERT OR REPLACE under UNIQUE(level, topic): the conflicting row is deleted
InsertOrReplace(table, row) ==
    (table \ RowsOf(table, row.level, row.topic)) \cup {row}

\* update_topic_progress, called by one caller at a time
UpdateTopicProgress(level, topic, score, total_questions, correct_answers) ==
    /\ Len(calls) < MaxCalls
    /\ LET current == get_topic_progress(topic_progress, level, topic)
           row == MergedTopicRow(tp_seq + 1, current, level, topic, score,
                                 total_questions, correct_answers)
       IN  topic_progress' = InsertOrReplace(topic_progress, row)
    /\ tp_seq' = tp_seq + 1
    /\ calls' = Append(calls, [level |-> level, topic |-> topic, score |-> score,
                               total_questions |-> total_questions,
                               correct_answers |-> correct_answers])
    /\ op' = [name |-> "update_topic_progress", level |-> level, topic |-> topic]
    /\ ret' = PyNone
    /\ UNCHANGED <<cacheVars, settingVars, clockVars, userVars,
                   sessionVars, raceVars, genVars,
                   schemaVars, shellVars, backupVars>>

\* get_topic_progress, as a store operation of its own
GetTopicProgress(level, topic) ==
    /\ op' = [name |-> "get_topic_progress", level |-> level, topic |-> topic]
    /\ ret' = get_topic_progress(topic_progress, level, topic)
    /\ UNCHANGED <<progressVars, cacheVars, settingVars, clockVars, userVars,
                   sessionVars, raceVars, genVars,
                   schemaVars, shellVars, backupVars>>

-----------------------------------------------------------------------------
(* The state after init_database, and the store's sequential callers.       *)

\* the rows init_database inserts into app_settings
DefaultSettings ==
    {[id |-> 1, setting_key |-> "api_key", setting_value |-> <<"">>],
     [id |-> 2, setting_key |-> "sound_enabled", setting_value |-> <<"true">>],
     [id |-> 3, setting_key |-> "auto_advance", setting_value |-> <<"false">>],
     [id |-> 4, setting_key |-> "theme", setting_value |-> <<"default">>],
     [id |-> 5, setting_key |-> "language", setting_value |-> <<"vi">>]}

\* the keys set_setting and get_setting are exercised with
SettingKeys == {"sound_enabled", "language", "timeout"}

\* the concurrent callers of update_topic_progress
Workers == {"w1", "w2"}

NoArgs == [level |-> "", topic |-> "", score |-> 0,
           total_questions |-> 0, correct_answers |-> 0]

NoRequest ==
    [level |-> "", topic |-> "", count |-> 0, difficulty_progression |-> TRUE,
     cultural_context |-> TRUE, grammar_focus |-> <<>>]
NoResponse == [success |-> FALSE, error |-> "", content |-> <<>>]
NoResult == [success |-> FALSE, questions |-> <<>>, error_message |-> ""]

\* the hour (UTC, counted from day 0) at which a behaviour starts: 22:00 of day 1
StartTime == 46

HoursPerDay == 24

\* SQLite's text of a UTC time, 'YYYY-MM-DD HH:MM:SS': the day, a space, the hour
sqlite_datetime(hours) == <<hours \div HoursPerDay, " ", hours % HoursPerDay>>

\* the row INSERT OR IGNORE INTO user_progress (id) VALUES (1) makes of the
\* column defaults, at the given time
DefaultUserRow(hours) ==
    [id |-> 1, current_level |-> "IM1",
     unlocked_levels |-> <<"[", "\"IM1\"", "]">>,
     total_score |-> 0, current_streak |-> 0, best_streak |-> 0,
     total_questions |-> 0, correct_answers |-> 0,
     last_played |-> sqlite_datetime(hours)]

\* the offsets of local time from UTC, in hours
TzOffsets == {-5, 0, 7}

NoCacheCall == [q |-> 0, expires |-> 0, swept |-> FALSE, cleared |-> FALSE]

\* the tables init_database creates
Tables ==
    {"user_progress", "topic_progress", "questions_cache", "game_sessions",
     "app_settings"}

InitTables ==
    /\ topic_progress = {}
    /\ tp_seq = 0
    /\ calls = <<>>
    /\ questions_cache = {}
    /\ qc_seq = 0
    /\ cache_log = [key \in StoreKeys |-> NoCacheCall]
    /\ app_settings = DefaultSettings
    /\ as_seq = Cardinality(DefaultSettings)
    /\ setting_log = [key \in SettingKeys |-> 0]
    /\ user_progress = {DefaultUserRow(StartTime)}
    /\ game_sessions = {}
    /\ gs_seq = 0
    /\ schema = Tables
    /\ op = [name |-> "init_database", level |-> "", topic |-> ""]
    /\ ret = PyNone

InitRace ==
    /\ wpc = [w \in Workers |-> "idle"]
    /\ wcur = [w \in Workers |-> DefaultTopicProgress]
    /\ wargs = [w \in Workers |-> NoArgs]

InitPipeline ==
    /\ gen_pc = "Idle"
    /\ request = NoRequest
    /\ api_response = NoResponse
    /\ transport_calls = 0
    /\ result = NoResult
    /\ prompt = <<>>
    /\ prompt_request = NoRequest
    /\ prompt_repeated = FALSE
    /\ posts_in_call = 0

\* the window after MainWindow.__init__: no thread started, no file copied
InitShell ==
    /\ api_threads = <<>>
    /\ progress_bar = FALSE

\* no commit and no backup in progress; no backup file yet
InitBackup ==
    /\ wr_pending = <<>>
    /\ copy_pos = 0
    /\ backup_file = <<>>
    /\ committed_log = {}

\* the store right after init_database, at a fixed time of day
Init ==
    /\ InitTables
    /\ now = StartTime
    /\ tz = 0
    /\ InitRace
    /\ InitPipeline
    /\ InitShell
    /\ InitBackup

\* topic progress recorded by one caller at a time
NextProgress ==
    \/ \E key \in StoreKeys, score \in Scores, n \in Counts :
          UpdateTopicProgress(key[1], key[2], score, n[1], n[2])
    \/ \E key \in StoreKeys : GetTopicProgress(key[1], key[2])

SpecProgress == Init /\ [][NextProgress]_vars

-----------------------------------------------------------------------------
(* Claims about topic progress under sequential calls.                      *)

\* the calls logged so far for a key
CallsFor(key) ==
    SelectSeq(calls, LAMBDA c : c.level = key[1] /\ c.topic = key[2])

RECURSIVE MaxScore(_), SumQuestions(_), SumCorrect(_)
MaxScore(cs) ==
    IF Len(cs) = 1 THEN cs[1].score ELSE Max2(cs[1].score, MaxScore(Tail(cs)))
SumQuestions(cs) ==
    IF cs = <<>> THEN 0 ELSE cs[1].total_questions + SumQuestions(Tail(cs))
SumCorrect(cs) ==
    IF cs = <<>> THEN 0 ELSE cs[1].correct_answers + SumCorrect(Tail(cs))

\* C1: after every sequential update_topic_progress call the stored
\* best_score of the key equals the maximum of all the scores passed for
\* that key so far (so it never decreases).
C1_BestScoreIsRunningMax ==
    \A key \in StoreKeys :
        CallsFor(key) # <<>> =>
            /\ RowsOf(topic_progress, key[1], key[2]) # {}
            /\ \A row \in RowsOf(topic_progress, key[1], key[2]) :
                  row.best_score = MaxScore(CallsFor(key))

\* a key was given 90 and then 60, and its best_score is 90
C1_Witness ==
    \E key \in StoreKeys :
        /\ Len(CallsFor(key)) = 2
        /\ CallsFor(key)[1].score = 90
        /\ CallsFor(key)[2].score = 60
        /\ \E row \in RowsOf(topic_progress, key[1], key[2]) : row.best_score = 90

\* C2: every topic_progress row has is_completed true exactly when its
\* best_score is at least 80, and get_topic_progress for a key without a
\* row reports is_completed false with best_score 0.
C2_CompletedIffPassing ==
    /\ \A row \in topic_progress : row.is_completed <=> (row.best_score >= 80)
    /\ (op.name = "get_topic_progress"
          /\ RowsOf(topic_progress, op.level, op.topic) = {})
        => (ret.is_completed = FALSE /\ ret.best_score = 0)

\* one key has reached exactly 80 and is completed, and get_topic_progress
\* has just answered for the other key, which has no row
C2_Witness ==
    /\ \E row \in topic_progress : row.best_score = 80 /\ row.is_completed
    /\ op.name = "get_topic_progress"
    /\ RowsOf(topic_progress, op.level, op.topic) = {}

\* C3: after N sequential update_topic_progress calls for a key, its
\* attempts equal N and its total_questions and correct_answers equal the
\* sums of the arguments passed (each call adds 1, q and c).
C3_AttemptsAndCountsAccumulate ==
    \A key \in StoreKeys :
        CallsFor(key) # <<>> =>
            \A row \in RowsOf(topic_progress, key[1], key[2]) :
                /\ row.attempts = Len(CallsFor(key))
                /\ row.total_questions = SumQuestions(CallsFor(key))
                /\ row.correct_answers = SumCorrect(CallsFor(key))

\* a key has been updated three times with different counts
C3_Witness ==
    \E key \in StoreKeys :
        /\ Len(CallsFor(key)) = 3
        /\ CallsFor(key)[1].total_questions # CallsFor(key)[2].total_questions
        /\ \E row \in RowsOf(topic_progress, key[1], key[2]) : row.attempts = 3

\* C4: get_topic_progress returns the zero-valued defaults for a key with
\* no recorded update, and a key has exactly one row once it was updated,
\* however many updates follow.
C4_DefaultsThenExactlyOneRow ==
    /\ \A key \in StoreKeys :
          Cardinality(RowsOf(topic_progress, key[1], key[2]))
              = (IF CallsFor(key) = <<>> THEN 0 ELSE 1)
    /\ (op.name = "get_topic_progress" /\ CallsFor(<<op.level, op.topic>>) = <<>>)
        => ret = DefaultTopicProgress

\* a key was updated twice and has one row, while the other key was read
\* before any update
C4_Witness ==
    /\ op.name = "get_topic_progress"
    /\ CallsFor(<<op.level, op.topic>>) = <<>>
    /\ \E key \in StoreKeys :
          /\ Len(CallsFor(key)) >= 2
          /\ Cardinality(RowsOf(topic_progress, key[1], key[2])) = 1

-----------------------------------------------------------------------------
(* update_topic_progress called by two callers at once (two threads or two *)
(* processes on one database file).  The function reads the current        *)
(* progress through a connection of its own (get_topic_progress commits    *)
(* nothing and holds no lock afterwards), and only the INSERT OR REPLACE   *)
(* with its commit is one SQLite transaction.                              *)

\* a caller enters update_topic_progress
RaceCall(w, level, topic, score, total_questions, correct_answers) ==
    /\ wpc[w] = "idle"
    /\ Len(calls) + Cardinality({v \in Workers : wpc[v] # "idle"}) < MaxCalls
    /\ wpc' = [wpc EXCEPT ![w] = "read"]
    /\ wargs' = [wargs EXCEPT ![w] =
                    [level |-> level, topic |-> topic, score |-> score,
                     total_questions |-> total_questions,
                     correct_answers |-> correct_answers]]
    /\ UNCHANGED <<wcur, storeVars, genVars, shellVars, backupVars>>

\* current = self.get_topic_progress(level, topic)
RaceRead(w) ==
    /\ wpc[w] = "read"
    /\ wcur' = [wcur EXCEPT ![w] =
                   get_topic_progress(topic_progress, wargs[w].level, wargs[w].topic)]
    /\ wpc' = [wpc EXCEPT ![w] = "write"]
    /\ UNCHANGED <<wargs, storeVars, genVars, shellVars, backupVars>>

\* the INSERT OR REPLACE of the values computed from `current`, and the commit
RaceWrite(w) ==
    /\ wpc[w] = "write"
    /\ LET a == wargs[w]
           row == MergedTopicRow(tp_seq + 1, wcur[w], a.level, a.topic, a.score,
                                 a.total_questions, a.correct_answers)
       IN  /\ topic_progress' = InsertOrReplace(topic_progress, row)
           /\ calls' = Append(calls, a)
           /\ op' = [name |-> "update_topic_progress",
                     level |-> a.level, topic |-> a.topic]
    /\ tp_seq' = tp_seq + 1
    /\ ret' = PyNone
    /\ wpc' = [wpc EXCEPT ![w] = "idle"]
    /\ UNCHANGED <<wcur, wargs, cacheVars, settingVars, clockVars, userVars,
                   sessionVars, genVars,
                   schemaVars, shellVars, backupVars>>

NextRace ==
    \/ \E w \in Workers, key \in StoreKeys, score \in Scores, n \in Counts :
          RaceCall(w, key[1], key[2], score, n[1], n[2])
    \/ \E w \in Workers : RaceRead(w)
    \/ \E w \in Workers : RaceWrite(w)

SpecRace == Init /\ [][NextRace]_vars

\* C5: when update_topic_progress calls for one key interleave, no update
\* is lost: once the calls have returned, best_score is the maximum of the
\* scores passed and attempts and the counters reflect every call.
C5_NoLostUpdate ==
    (\A w \in Workers : wpc[w] = "idle") =>
        \A key \in StoreKeys :
            \A row \in RowsOf(topic_progress, key[1], key[2]) :
                /\ row.best_score = MaxScore(CallsFor(key))
                /\ row.attempts = Len(CallsFor(key))
                /\ row.total_questions = SumQuestions(CallsFor(key))
                /\ row.correct_answers = SumCorrect(CallsFor(key))

\* C5, its first part alone: the stored best_score of a key never decreases.
C5_BestScoreNeverDecreases ==
    [][\A key \in StoreKeys :
          \A row \in RowsOf(topic_progress, key[1], key[2]) :
              \A row2 \in RowsOf(topic_progress', key[1], key[2]) :
                  row2.best_score >= row.best_score]_vars

-----------------------------------------------------------------------------
(* Table questions_cache and the clock.  Time is counted in hours.          *)
(* datetime.now() is local time; SQLite's CURRENT_TIMESTAMP is UTC.  A     *)
(* timestamp text is <<date, separator, hour of day>>: isoformat() writes  *)
(* the separator "T", CURRENT_TIMESTAMP writes a space.                     *)

\* datetime.now(), in hours of local time
local_now == now + tz

\* datetime.isoformat()
isoformat(hours) == <<hours \div HoursPerDay, "T", hours % HoursPerDay>>

\* datetime.fromisoformat(), which accepts any separator, and a date alone as
\* the beginning of that day
fromisoformat(text) ==
    text[1] * HoursPerDay + (IF Len(text) = 1 THEN 0 ELSE text[3])

\* SQLite's CURRENT_TIMESTAMP: 'YYYY-MM-DD HH:MM:SS' in UTC
CURRENT_TIMESTAMP == <<now \div HoursPerDay, " ", now % HoursPerDay>>

\* SQLite's < on two timestamp texts: bytewise, " " sorts before "T", and a
\* text sorts before the texts it begins
TextLess(a, b) ==
    \/ a[1] < b[1]
    \/ /\ a[1] = b[1]
       /\ Len(a) = 1
       /\ Len(b) > 1
    \/ /\ a[1] = b[1]
       /\ Len(a) > 1
       /\ Len(b) > 1
       /\ \/ (a[2] = " " /\ b[2] = "T")
          \/ (a[2] = b[2] /\ a[3] < b[3])

\* the question records the cache is exercised with
Question1 ==
    PyDict(<<Item("sentence", PyStr("I _____ breakfast every morning.")),
             Item("correctAnswer", PyStr("have")),
             Item("wrongAnswers",
                  PyList(<<PyStr("take"), PyStr("make"), PyStr("eat"), PyStr("do")>>)),
             Item("explanation", PyStr("...")),
             Item("level", PyStr("IM1")),
             Item("topic", PyStr("Daily Routines")),
             Item("generated_at", PyStr("2026-01-02T10:00:00"))>>)
Question2 ==
    PyDict(<<Item("sentence", PyStr("She _____ to work by bus.")),
             Item("correctAnswer", PyStr("goes")),
             Item("wrongAnswers",
                  PyList(<<PyStr("go"), PyStr("make"), PyStr("eat"), PyStr("do")>>)),
             Item("explanation", PyStr("...")),
             Item("level", PyStr("IM1")),
             Item("topic", PyStr("Daily Routines")),
             Item("generated_at", PyStr("2026-01-02T10:00:00"))>>)

\* the lists passed to cache_questions
QuestionLists ==
    <<PyList(<<>>), PyList(<<Question1>>), PyList(<<Question1, Question2>>)>>

\* the expires_hours passed to cache_questions
TTLs == {1, 2}

expires_at_now(local, expires_hours) == local
\* datetime.now() + timedelta(hours=expires_hours)
expires_at_of(local, expires_hours) == local + expires_hours

is_fresh_inclusive(local, expires_at) == local <= expires_at
\* datetime.now() < expires_at
is_fresh(local, expires_at) == local < expires_at

\* what a raised exception leaves in place of a return value
PyRaise(name) == [t |-> "raise", v |-> name]

\* cache_questions(level, topic, QuestionLists[q], expires_hours)
CacheQuestions(level, topic, q, expires_hours) ==
    /\ qc_seq < MaxCacheWrites
    /\ LET expires_at == expires_at_of(local_now, expires_hours)
           row == [id |-> qc_seq + 1, level |-> level, topic |-> topic,
                   question_data |-> json_dumps(QuestionLists[q]),
                   expires_at |-> isoformat(expires_at)]
       IN  /\ questions_cache' = InsertOrReplace(questions_cache, row)
           /\ cache_log' = [cache_log EXCEPT ![<<level, topic>>] =
                               [q |-> q, expires |-> local_now + expires_hours,
                                swept |-> FALSE, cleared |-> FALSE]]
    /\ qc_seq' = qc_seq + 1
    /\ op' = [name |-> "cache_questions", level |-> level, topic |-> topic]
    /\ ret' = PyNone
    /\ UNCHANGED <<progressVars, settingVars, clockVars, userVars,
                   sessionVars, raceVars, genVars,
                   schemaVars, shellVars, backupVars>>

\* get_cached_questions(level, topic)
GetCachedQuestions(level, topic) ==
    /\ op' = [name |-> "get_cached_questions", level |-> level, topic |-> topic]
    /\ IF RowsOf(questions_cache, level, topic) # {}
       THEN LET row == FetchOne(questions_cache, level, topic) IN
            IF is_fresh(local_now, fromisoformat(row.expires_at))
            THEN /\ ret' = (LET loaded == json_loads(row.question_data) IN
                            IF loaded.ok THEN loaded.val
                            ELSE PyRaise("JSONDecodeError"))
                 /\ UNCHANGED questions_cache
            ELSE /\ questions_cache' =
                        questions_cache \ RowsOf(questions_cache, level, topic)
                 /\ ret' = PyNone
       ELSE /\ ret' = PyNone
            /\ UNCHANGED questions_cache
    /\ UNCHANGED <<qc_seq, cache_log>>
    /\ UNCHANGED <<progressVars, settingVars, clockVars, userVars,
                   sessionVars, raceVars, genVars,
                   schemaVars, shellVars, backupVars>>

\* the rows DELETE ... WHERE expires_at < CURRENT_TIMESTAMP removes
SweptRows(table) == {row \in table : TextLess(row.expires_at, CURRENT_TIMESTAMP)}

\* clear_expired_cache(): the count of deleted rows is logged, not returned
ClearExpiredCache ==
    /\ questions_cache' = questions_cache \ SweptRows(questions_cache)
    /\ cache_log' = [key \in StoreKeys |-> [cache_log[key] EXCEPT !.swept = TRUE]]
    /\ op' = [name |-> "clear_expired_cache", level |-> "", topic |-> ""]
    /\ ret' = PyNone
    /\ UNCHANGED qc_seq
    /\ UNCHANGED <<progressVars, settingVars, clockVars, userVars,
                   sessionVars, raceVars, genVars,
                   schemaVars, shellVars, backupVars>>

\* an hour passes
Tick ==
    /\ now < StartTime + MaxTicks
    /\ now' = now + 1
    /\ op' = [name |-> "tick", level |-> "", topic |-> ""]
    /\ ret' = PyNone
    /\ UNCHANGED <<tz, progressVars, cacheVars, settingVars, userVars,
                   sessionVars, raceVars, genVars,
                   schemaVars, shellVars, backupVars>>

\* the store right after init_database, in some time zone
InitCache ==
    /\ InitTables
    /\ now = StartTime
    /\ tz \in TzOffsets
    /\ InitRace
    /\ InitPipeline
    /\ InitShell
    /\ InitBackup

NextCache ==
    \/ \E key \in StoreKeys, q \in 1..Len(QuestionLists), ttl \in TTLs :
          CacheQuestions(key[1], key[2], q, ttl)
    \/ \E key \in StoreKeys : GetCachedQuestions(key[1], key[2])
    \/ ClearExpiredCache
    \/ Tick

SpecCache == InitCache /\ [][NextCache]_vars

-----------------------------------------------------------------------------
(* Claims about the question cache.                                         *)

\* the last cache_questions call for the key of the last operation
LastCached == cache_log[<<op.level, op.topic>>]

\* C6: get_cached_questions for a key, before the expiry time of the last
\* cache_questions call for that key (and with no cache sweep since that
\* call), returns a list equal to the list that was cached.
C6_CacheRoundTrip ==
    (/\ op.name = "get_cached_questions"
     /\ LastCached.q # 0
     /\ ~LastCached.swept
     /\ local_now < LastCached.expires)
    => PyEq(ret, QuestionLists[LastCached.q])

\* a list of two records was cached, an hour passed, and it was read back
C6_Witness ==
    /\ op.name = "get_cached_questions"
    /\ LastCached.q = 3
    /\ ~LastCached.swept
    /\ now > StartTime
    /\ local_now < LastCached.expires
    /\ ret.t = "list"
    /\ Len(ret.v) = 2

\* C7: get_cached_questions at or after the expiry time of the key's last
\* cache_questions call returns None and leaves no row for the key; it
\* never returns records once the expiry time is reached.
C7_LazyExpiry ==
    (op.name = "get_cached_questions" /\ LastCached.q # 0) =>
        /\ local_now >= LastCached.expires =>
              /\ ret = PyNone
              /\ RowsOf(questions_cache, op.level, op.topic) = {}
        /\ ret.t # "none" => local_now < LastCached.expires

\* a key was read exactly at its expiry time, with no sweep before
C7_Witness ==
    /\ op.name = "get_cached_questions"
    /\ LastCached.q # 0
    /\ ~LastCached.swept
    /\ local_now = LastCached.expires
    /\ ret = PyNone
    /\ RowsOf(questions_cache, op.level, op.topic) = {}

\* C8: clear_expired_cache deletes exactly the rows whose expiry time has
\* passed, the rows get_cached_questions would treat as expired at that
\* moment, and leaves every other row in place.
C8_ClearDeletesExactlyExpired ==
    [][op'.name = "clear_expired_cache" =>
          questions_cache' =
              {row \in questions_cache :
                  is_fresh(local_now, fromisoformat(row.expires_at))}]_vars

\* C8, in one direction: clear_expired_cache leaves every unexpired row.
C8_ClearKeepsUnexpired ==
    [][op'.name = "clear_expired_cache" =>
          \A row \in questions_cache :
              is_fresh(local_now, fromisoformat(row.expires_at))
                  => row \in questions_cache']_vars

-----------------------------------------------------------------------------
(* Table app_settings.                                                      *)

\* the values passed to set_setting
SettingValues ==
    <<PyBool(TRUE), PyBool(FALSE), PyStr("vi"), PyStr("true"), PyInt("30"),
      PyList(<<PyStr("vi"), PyStr("en")>>)>>

\* the rows of app_settings with the given key
SettingRows(table, key) == {row \in table : row.setting_key = key}

\* INSERT OR REPLACE under setting_key UNIQUE
UpsertSetting(table, row) ==
    (table \ SettingRows(table, row.setting_key)) \cup {row}

\* the text stored for a value: JSON for dict and list, str() for the rest
value_str(value) ==
    IF value.t \in {"dict", "list"} THEN json_dumps(value) ELSE py_str(value)

RECURSIVE Concat(_)
\* a text as one Python string
Concat(text) == IF text = <<>> THEN "" ELSE text[1] \o Concat(Tail(text))

\* the value get_setting makes of a stored text: the decoded JSON, or the
\* raw string where decoding fails
decoded_setting(text) ==
    LET loaded == json_loads(text) IN
    IF loaded.ok THEN loaded.val ELSE PyStr(Concat(text))

\* set_setting(key, SettingValues[i])
SetSetting(key, i) ==
    /\ as_seq < Cardinality(DefaultSettings) + MaxSettingWrites
    /\ app_settings' =
          UpsertSetting(app_settings,
                        [id |-> as_seq + 1, setting_key |-> key,
                         setting_value |-> value_str(SettingValues[i])])
    /\ as_seq' = as_seq + 1
    /\ setting_log' = [setting_log EXCEPT ![key] = i]
    /\ op' = [name |-> "set_setting", key |-> key]
    /\ ret' = PyNone
    /\ UNCHANGED <<progressVars, cacheVars, clockVars, userVars,
                   sessionVars, raceVars, genVars,
                   schemaVars, shellVars, backupVars>>

\* get_setting(key), with the default None
GetSetting(key) ==
    /\ op' = [name |-> "get_setting", key |-> key]
    /\ ret' = (IF SettingRows(app_settings, key) # {}
               THEN LET row == CHOOSE r \in SettingRows(app_settings, key) :
                                  \A o \in SettingRows(app_settings, key) : r.id <= o.id
                    IN  decoded_setting(row.setting_value)
               ELSE PyNone)
    /\ UNCHANGED <<progressVars, cacheVars, settingVars, clockVars, userVars,
                   sessionVars, raceVars, genVars,
                   schemaVars, shellVars, backupVars>>

NextSettings ==
    \/ \E key \in SettingKeys, i \in 1..Len(SettingValues) : SetSetting(key, i)
    \/ \E key \in SettingKeys : GetSetting(key)

SpecSettings == Init /\ [][NextSettings]_vars

\* C9: get_setting for a key whose last set_setting passed a boolean
\* returns that boolean itself, not a string.
C9_BooleanRoundTrip ==
    (/\ op.name = "get_setting"
     /\ setting_log[op.key] # 0
     /\ SettingValues[setting_log[op.key]].t = "bool")
    => PyEq(ret, SettingValues[setting_log[op.key]])

\* what the code does instead: a boolean comes back as the string str() made
\* of it, while strings that are not JSON, numbers and lists come back as set
C9_BooleanComesBackAsString ==
    (op.name = "get_setting" /\ setting_log[op.key] # 0) =>
        LET value == SettingValues[setting_log[op.key]] IN
        CASE value.t = "bool" -> PyEq(ret, PyStr(value.v))
          [] value.t = "str" /\ value.v = "true" -> PyEq(ret, PyBool(TRUE))
          [] OTHER -> PyEq(ret, value)

-----------------------------------------------------------------------------
(* The generation pipeline: parsing and validating the reply.               *)

\* str.strip() on the strings of the model
strip(str) == IF str = " have " THEN "have" ELSE str

\* '_____' in str, on the strings of the model
has_blank(str) ==
    str \in {"I _____ breakfast every morning.", "She _____ to work by bus.",
             "He _____ up at six and _____ to school."}

\* lexemes that are white space
IsSpace(lex) == lex \in {" ", "\n"}

RECURSIVE lstrip(_), rstrip(_)
lstrip(text) ==
    IF text # <<>> /\ IsSpace(text[1]) THEN lstrip(Tail(text)) ELSE text
rstrip(text) ==
    IF text # <<>> /\ IsSpace(text[Len(text)])
    THEN rstrip(SubSeq(text, 1, Len(text) - 1)) ELSE text
\* content.strip()
strip_text(text) == rstrip(lstrip(text))

\* the positions of a lexeme in a text
Positions(text, lex) == {i \in 1..Len(text) : text[i] = lex}
SetMin(S) == CHOOSE x \in S : \A y \in S : x <= y
SetMax(S) == CHOOSE x \in S : \A y \in S : x >= y

\* the text json.loads is given: the reply itself when it starts with "[",
\* else the part from the first "[" to the last "]"; found is FALSE where
\* ValueError("No JSON array found in response") is raised
extract_array_first_close(content) ==
    IF content # <<>> /\ content[1] = "["
    THEN [found |-> TRUE, text |-> content]
    ELSE IF Positions(content, "[") # {} /\ Positions(content, "]") # {}
         THEN [found |-> TRUE,
               text |-> SubSeq(content, SetMin(Positions(content, "[")),
                               SetMin(Positions(content, "]")))]
         ELSE [found |-> FALSE, text |-> <<>>]
extract_array_always(content) ==
    IF Positions(content, "[") # {} /\ Positions(content, "]") # {}
    THEN [found |-> TRUE,
          text |-> SubSeq(content, SetMin(Positions(content, "[")),
                          SetMax(Positions(content, "]")))]
    ELSE [found |-> FALSE, text |-> <<>>]
extract_array(content) ==
    IF content # <<>> /\ content[1] = "["
    THEN [found |-> TRUE, text |-> content]
    ELSE IF Positions(content, "[") # {} /\ Positions(content, "]") # {}
         THEN [found |-> TRUE,
               text |-> SubSeq(content, SetMin(Positions(content, "[")),
                               SetMax(Positions(content, "]")))]
         ELSE [found |-> FALSE, text |-> <<>>]

\* question[field], for a dict that has the field
Field(question, field) ==
    LET i == CHOOSE j \in 1..Len(question.v) : question.v[j].k = field
    IN  question.v[i].val

\* `field in question`: "yes", "no", or "TypeError" for a value that is no
\* container (a number, a boolean, null)
contains(question, field) ==
    CASE question.t = "dict" ->
            IF \E j \in 1..Len(question.v) : question.v[j].k = field
            THEN "yes" ELSE "no"
      [] question.t = "list" ->
            IF \E j \in 1..Len(question.v) :
                   question.v[j].t = "str" /\ question.v[j].v = field
            THEN "yes" ELSE "no"
      \* a substring test; among the strings of the model a field name occurs
      \* only in itself
      [] question.t = "str" ->
            IF field = "_____" THEN (IF has_blank(question.v) THEN "yes" ELSE "no")
            ELSE (IF question.v = field THEN "yes" ELSE "no")
      [] OTHER -> "TypeError"

required_fields == <<"sentence", "correctAnswer", "explanation", "wrongAnswers">>

\* what the loop body makes of one array element: "valid", "skip" (continue)
\* or "raise" (an exception leaves the loop)
check_question(question) ==
    IF \E i \in 1..Len(required_fields) :
           contains(question, required_fields[i]) = "TypeError"
    THEN "raise"
    ELSE IF \E i \in 1..Len(required_fields) :
                contains(question, required_fields[i]) = "no"
    THEN "skip"
    \* a list or a string holding all four field names cannot be indexed by name
    ELSE IF question.t # "dict" THEN "raise"
    ELSE IF contains(Field(question, "sentence"), "_____") = "TypeError" THEN "raise"
    ELSE IF contains(Field(question, "sentence"), "_____") = "no" THEN "skip"
    ELSE IF Field(question, "wrongAnswers").t # "list" THEN "skip"
    ELSE IF Len(Field(question, "wrongAnswers").v) < 4 THEN "skip"
    \* .strip() exists on strings only
    ELSE IF \/ Field(question, "sentence").t # "str"
            \/ Field(question, "correctAnswer").t # "str"
            \/ Field(question, "explanation").t # "str"
            \/ \E j \in 1..4 : Field(question, "wrongAnswers").v[j].t # "str"
    THEN "raise"
    ELSE "valid"

\* datetime.now().isoformat() as a Python string
iso_string(hours) ==
    ToString(isoformat(hours)[1]) \o isoformat(hours)[2] \o ToString(isoformat(hours)[3])

\* the record made of a valid element
validated_question(question, req, local) ==
    PyDict(<<Item("sentence", PyStr(strip(Field(question, "sentence").v))),
             Item("correctAnswer", PyStr(strip(Field(question, "correctAnswer").v))),
             Item("explanation", PyStr(strip(Field(question, "explanation").v))),
             Item("wrongAnswers",
                  PyList([j \in 1..4 |->
                             PyStr(strip(Field(question, "wrongAnswers").v[j].v))])),
             Item("level", PyStr(req.level)),
             Item("topic", PyStr(req.topic)),
             Item("generated_at", PyStr(iso_string(local)))>>)

RECURSIVE validate_loop_no_break(_, _, _, _, _)
validate_loop_no_break(questions, i, acc, req, local) ==
    IF i > Len(questions) THEN [raised |-> FALSE, questions |-> acc]
    ELSE LET verdict == check_question(questions[i]) IN
         IF verdict = "raise" THEN [raised |-> TRUE, questions |-> <<>>]
         ELSE IF verdict = "skip"
         THEN validate_loop_no_break(questions, i + 1, acc, req, local)
         ELSE validate_loop_no_break(questions, i + 1,
                  Append(acc, validated_question(questions[i], req, local)),
                  req, local)

RECURSIVE validate_loop(_, _, _, _, _)
\* the for loop over the array, from element i on, with the records kept so far
validate_loop(questions, i, acc, req, local) ==
    IF i > Len(questions) THEN [raised |-> FALSE, questions |-> acc]
    ELSE LET verdict == check_question(questions[i]) IN
         IF verdict = "raise" THEN [raised |-> TRUE, questions |-> <<>>]
         ELSE IF verdict = "skip" THEN validate_loop(questions, i + 1, acc, req, local)
         ELSE LET acc2 == Append(acc, validated_question(questions[i], req, local)) IN
              IF Len(acc2) >= req.count
              THEN [raised |-> FALSE, questions |-> acc2]
              ELSE validate_loop(questions, i + 1, acc2, req, local)

\* `if not validated_questions`, after the loop
no_valid_questions_never(validated) == FALSE
no_valid_questions(validated) == validated = <<>>

\* _parse_and_validate_questions(content, request): the list it returns, or
\* the message of the ValueError it raises
parse_and_validate_questions(content, req, local) ==
    IF content.t # "str"
    THEN [ok |-> FALSE, questions |-> <<>>, error |-> "Question validation failed"]
    ELSE
    LET extracted == extract_array(strip_text(content.v))
        loaded == json_loads(extracted.text)
        looped == validate_loop(loaded.val.v, 1, <<>>, req, local)
    IN  IF ~extracted.found
        THEN [ok |-> FALSE, questions |-> <<>>,
              error |-> "Question validation failed: No JSON array found in response"]
        ELSE IF ~loaded.ok
        THEN [ok |-> FALSE, questions |-> <<>>, error |-> "Invalid JSON in API response"]
        ELSE IF loaded.val.t # "list"
        THEN [ok |-> FALSE, questions |-> <<>>,
              error |-> "Question validation failed: Response is not a list"]
        ELSE IF looped.raised
        THEN [ok |-> FALSE, questions |-> <<>>, error |-> "Question validation failed"]
        ELSE IF no_valid_questions(looped.questions)
        THEN [ok |-> FALSE, questions |-> <<>>,
              error |-> "Question validation failed: No valid questions found in response"]
        ELSE [ok |-> TRUE, questions |-> looped.questions, error |-> ""]

-----------------------------------------------------------------------------
(* The generation pipeline: generate_questions, step by step.               *)

\* the requests generate_questions is given
RequestLevels == {"IM1", "IM2", "XX", ""}
RequestTopics == {"Daily Routines", "Travel & Vacations", "Weather Forecasts", ""}
RequestCounts == {0, 1, 2, 20, 21}

MinCount == 1
MaxCount == 20

\* _validate_request(request)
validate_request_no_count(req) ==
    /\ req.level # "" /\ req.topic # ""
    /\ is_valid_level(req.level)
    /\ req.topic \in get_level_topics(req.level)
validate_request(req) ==
    /\ req.level # "" /\ req.topic # ""
    /\ is_valid_level(req.level)
    /\ req.topic \in get_level_topics(req.level)
    /\ ~(req.count < MinCount \/ req.count > MaxCount)

\* array elements a reply may hold
RawQuestion(sentence, answer, wrong) ==
    PyDict(<<Item("sentence", PyStr(sentence)),
             Item("correctAnswer", PyStr(answer)),
             Item("explanation", PyStr("...")),
             Item("wrongAnswers", PyList(wrong))>>)
FourWrong == <<PyStr("take"), PyStr("make"), PyStr("eat"), PyStr("do")>>
RawValid1 == RawQuestion("I _____ breakfast every morning.", " have ", FourWrong)
RawValid2 == RawQuestion("She _____ to work by bus.", "goes", Append(FourWrong, PyStr("e")))
RawTwoBlanks == RawQuestion("He _____ up at six and _____ to school.", "gets", FourWrong)
RawNoBlank ==
    RawQuestion("invalid - no blank", "x",
                <<PyStr("a"), PyStr("b"), PyStr("c"), PyStr("d")>>)
RawThreeWrong == RawQuestion("She _____ to work by bus.", "goes", SubSeq(FourWrong, 1, 3))
RawNoWrongAnswers ==
    PyDict(<<Item("sentence", PyStr("She _____ to work by bus.")),
             Item("correctAnswer", PyStr("goes")),
             Item("explanation", PyStr("..."))>>)
RawNumberAnswer ==
    PyDict(<<Item("sentence", PyStr("She _____ to work by bus.")),
             Item("correctAnswer", PyInt("5")),
             Item("explanation", PyStr("...")),
             Item("wrongAnswers", PyList(FourWrong))>>)

\* a Python string held as a text, lexeme by lexeme
PyText(text) == [t |-> "str", v |-> text]

\* the message contents the endpoint may reply with
Replies ==
    <<PyText(<<"Here are the questions:", "\n">>
            \o json_dumps(PyList(<<RawValid1, RawNoBlank>>)) \o <<"\n", "Done.">>),
      PyText(json_dumps(PyList(<<RawValid1, RawValid2, RawTwoBlanks>>))),
      PyText(<<"\n">> \o json_dumps(PyList(<<RawNoWrongAnswers, RawThreeWrong, RawValid2>>))),
      PyText(json_dumps(PyList(<<>>))),
      PyText(json_dumps(PyList(<<RawNoBlank, PyStr("note")>>))),
      PyText(<<"Sorry, I cannot help with that.">>),
      PyText(json_dumps(PyList(<<RawValid1>>)) \o <<"\n", "Done.">>),
      PyText(<<"Note", "[", "1", "]", ":">> \o json_dumps(PyList(<<RawValid1>>))
            \o <<"\n", "Done.">>),
      PyText(<<"Result:">> \o json_dumps(PyList(<<RawValid2>>)) \o <<"(end", "]", ")">>),
      PyText(json_dumps(PyList(<<RawValid1>>)) \o <<"See", "[", "1", "]">>),
      PyText(json_dumps(PyList(<<PyInt("5"), RawValid1>>))),
      PyText(json_dumps(PyList(<<RawValid1, RawNumberAnswer>>))),
      PyText(json_dumps(RawValid1)),
      PyText(<<"]", "[">>),
      PyNone>>

\* what a session.post call may come to
TransportOutcomes ==
    {"content", "timeout", "request_failed", "invalid_json", "no_choices", "unexpected"}

\* the dictionary _call_api returns for an outcome of the call; reply is the
\* content of the first choice's message
call_api_result(outcome, reply) ==
    CASE outcome = "content" ->
            [success |-> TRUE, error |-> "", content |-> reply]
      [] outcome = "timeout" ->
            [success |-> FALSE, error |-> "API request timed out", content |-> PyNone]
      [] outcome = "request_failed" ->
            [success |-> FALSE, error |-> "API request failed", content |-> PyNone]
      [] outcome = "invalid_json" ->
            [success |-> FALSE, error |-> "Invalid JSON response from API",
             content |-> PyNone]
      [] outcome = "no_choices" ->
            [success |-> FALSE, error |-> "No choices in API response", content |-> PyNone]
      [] outcome = "unexpected" ->
            [success |-> FALSE, error |-> "Unexpected error", content |-> PyNone]

GenerationResult(success, questions, error_message) ==
    [success |-> success, questions |-> questions, error_message |-> error_message]

\* the except clause of generate_questions: an exception raised while the
\* reply is parsed becomes a failure result carrying str(e)
except_Exception_reraise(message) == [pc |-> "Raised", result |-> NoResult]
except_Exception(message) ==
    [pc |-> "ParsedFail", result |-> GenerationResult(FALSE, <<>>, message)]

\* GenerationRequest(level, topic, count, ...); an absent grammar_focus (None)
\* and an empty one are the same to `request.grammar_focus or ...`
GenerationRequest(level, topic, count, difficulty_progression, cultural_context, grammar_focus) ==
    [level |-> level, topic |-> topic, count |-> count,
     difficulty_progression |-> difficulty_progression,
     cultural_context |-> cultural_context, grammar_focus |-> grammar_focus]

\* the level definitions of the levels the requests of the model name
LevelInfo_IM1 ==
    [name |-> "Intermediate Mid 1",
     description |-> "Basic daily conversations and routine situations",
     grammar_focus |->
       <<"Present Simple vs Present Continuous",
         "Past Simple vs Present Perfect",
         "Basic Future forms (will/going to)", "Comparative and Superlative",
         "Modal verbs (can/could/should)", "Prepositions of time and place",
         "Question formation (WH-questions)", "Frequency adverbs",
         "There is/are constructions", "Basic conjunctions (and, but, or)",
         "Simple conditional (if + present)",
         "Possessive adjectives and pronouns">>,
     cultural_contexts |->
       <<"Greetings and introductions", "Family customs", "Meal times",
         "Shopping etiquette", "Public transportation", "Weather talk",
         "Leisure activities", "Work schedules", "Healthcare visits",
         "Housing arrangements">>,
     speaking_tasks |->
       <<"Describe daily routine", "Talk about family", "Order food",
         "Ask for directions", "Make appointments", "Express preferences",
         "Give personal information", "Talk about past experiences",
         "Make simple plans", "Describe living situation">>,
     difficulty_indicators |->
       <<"Simple sentence structures", "Present tense dominant",
         "Concrete vocabulary", "Familiar topics", "Basic time concepts",
         "Simple descriptions", "Personal experiences">>]

LevelInfo_IM2 ==
    [name |-> "Intermediate Mid 2",
     description |-> "Most routine social exchanges with some complications",
     grammar_focus |->
       <<"Present Perfect vs Past Simple", "Present Perfect Continuous",
         "Past Continuous vs Past Simple", "Used to vs Would",
         "First Conditional", "Reported Speech basics",
         "Passive Voice present/past", "Relative Clauses (who/which/that)",
         "Modal verbs of possibility", "Gerunds vs Infinitives basics",
         "Linking words (because, although)", "Future plans and intentions">>,
     cultural_contexts |->
       <<"Travel customs", "Entertainment preferences",
         "Technology adoption", "Education systems", "Work environments",
         "Problem-solving approaches", "Opinion sharing",
         "Cultural celebrations", "Healthcare systems", "Banking practices",
         "Social relationships", "Media consumption">>,
     speaking_tasks |->
       <<"Plan a trip", "Discuss entertainment", "Explain technology use",
         "Talk about education", "Describe work experience",
         "Solve problems", "Express opinions", "Discuss cultural events",
         "Describe health issues", "Handle banking",
         "Talk about relationships", "Discuss current events">>,
     difficulty_indicators |->
       <<"More complex sentence structures", "Past tense narratives",
         "Abstract concepts introduction", "Opinion expression",
         "Problem-solution patterns", "Cause-effect relationships">>]

\* opic_structure.get_level(level_code)
get_level(level_code) ==
    CASE level_code = "IM1" -> LevelInfo_IM1
      [] level_code = "IM2" -> LevelInfo_IM2

\* str.lower() on the topics of the model
lower(str) ==
    CASE str = "Daily Routines" -> "daily routines"
      [] str = "Travel & Vacations" -> "travel & vacations"
      [] str = "Weather Forecasts" -> "weather forecasts"
      [] OTHER -> str

RECURSIVE Join(_, _)
\* sep.join(items), piece by piece
Join(items, sep) ==
    IF items = <<>> THEN <<>>
    ELSE IF Len(items) = 1 THEN items
    ELSE <<items[1], sep>> \o Join(Tail(items), sep)

\* seq[:n]
Prefix(seq, n) == SubSeq(seq, 1, IF Len(seq) < n THEN Len(seq) ELSE n)

MaxGrammarPoints == 8
MaxContexts == 5
MaxTasks == 5
MaxConnectTasks == 3

\* the f-string of _create_comprehensive_prompt, piece by piece: every
\* interpolated value in its place, the fixed text between them by its
\* opening words
prompt_text(req, level_info, selected_grammar) ==
    <<"Generate ", ToString(req.count), " comprehensive OPIC ", req.level, " (",
      level_info.name, ") English fill-in-the-blank questions for the topic: \"",
      req.topic, "\".",
      "CRITICAL OPIC ", req.level, " REQUIREMENTS:",
      "1. Questions must reflect ACTUAL OPIC ", req.level,
      "2. Cover key grammar patterns: ">> \o Join(selected_grammar, ", ") \o
    <<"3. Use vocabulary and sentence structures appropriate for: ",
      level_info.description,
      "5. ">> \o
    (IF req.difficulty_progression
     THEN <<"Progressive difficulty (questions 1-3 easier, 4-7 medium, 8-10 harder)">>
     ELSE <<"Consistent difficulty appropriate for ", req.level>>) \o
    <<"7. ",
      IF req.cultural_context
      THEN "Test cultural knowledge and situational appropriateness"
      ELSE "Focus on grammatical accuracy",
      "TOPIC FOCUS: \"", req.topic, "\"",
      "LEVEL DESCRIPTION: ", level_info.description,
      "GRAMMAR PATTERNS TO TEST: ">> \o Join(selected_grammar, ", ") \o
    <<"CULTURAL CONTEXTS: ">> \o
    Join(Prefix(level_info.cultural_contexts, MaxContexts), ", ") \o
    <<"SPEAKING TASKS: ">> \o
    Join(Prefix(level_info.speaking_tasks, MaxTasks), ", ") \o
    <<"QUALITY STANDARDS FOR OPIC ", req.level, ":",
      "- Grammar complexity appropriate for ", req.level,
      "- Wrong answers should represent common ", req.level,
      "- Vocabulary level should match OPIC ", req.level,
      "DIFFICULTY INDICATORS FOR ", req.level, ":">> \o
    Join([i \in 1..Len(level_info.difficulty_indicators) |->
             "- " \o level_info.difficulty_indicators[i]], "\n") \o
    <<"For each question provide:",
      "  * Why this answer demonstrates OPIC ", req.level,
      "  * Connection to ", req.topic,
      "  * Common grammar mistakes at ", req.level,
      "  * Vocabulary confusion typical for ", req.level,
      "CONTEXT REQUIREMENTS:",
      "- Use realistic ", req.topic,
      "- Connect to typical OPIC speaking tasks: ">> \o
    Join(Prefix(level_info.speaking_tasks, MaxConnectTasks), ", ") \o
    <<"Generate exactly ", ToString(req.count), " questions as a valid JSON array.",
      IF req.difficulty_progression
      THEN "clear progression in difficulty"
      ELSE "consistent appropriate difficulty",
      "EXAMPLE FORMAT (adapt complexity for ", req.level, "):",
      "\"sentence\": \"When discussing ", lower(req.topic),
      "\"explanation\": \"OPIC ", req.level, req.topic, req.level>>

\* seq[k:] + seq[:k]
Rotated(seq, k) == SubSeq(seq, k + 1, Len(seq)) \o SubSeq(seq, 1, k)

\* _create_comprehensive_prompt(request, level_info)
create_comprehensive_prompt_rotating(req, level_info) ==
    LET grammar_focus == IF req.grammar_focus # <<>> THEN req.grammar_focus
                         ELSE level_info.grammar_focus
    IN  prompt_text(req, level_info,
                    Prefix(Rotated(grammar_focus, transport_calls % Len(grammar_focus)),
                           MaxGrammarPoints))
create_comprehensive_prompt(req, level_info) ==
    LET grammar_focus == IF req.grammar_focus # <<>> THEN req.grammar_focus
                         ELSE level_info.grammar_focus
    IN  prompt_text(req, level_info, Prefix(grammar_focus, MaxGrammarPoints))

\* generate_questions(request) begins: the request is validated, the level is
\* looked up and the prompt is created
GenerateValidate(req) ==
    /\ gen_pc = "Idle"
    /\ transport_calls < MaxRequests
    /\ request' = req
    /\ IF ~validate_request(req)
       THEN /\ gen_pc' = "Rejected"
            /\ result' = GenerationResult(FALSE, <<>>, "Invalid request parameters")
            /\ UNCHANGED <<prompt, prompt_request, prompt_repeated>>
       \* opic_structure.get_level(request.level) is None
       ELSE IF req.level \notin LEVELS
       THEN /\ gen_pc' = "Rejected"
            /\ result' = GenerationResult(FALSE, <<>>, "Invalid level")
            /\ UNCHANGED <<prompt, prompt_request, prompt_repeated>>
       ELSE /\ gen_pc' = "PromptBuilt"
            /\ result' = NoResult
            /\ prompt' = create_comprehensive_prompt(req, get_level(req.level))
            /\ prompt_request' = req
            /\ prompt_repeated' = (prompt # <<>> /\ req = prompt_request)
    /\ api_response' = NoResponse
    /\ posts_in_call' = 0
    /\ UNCHANGED <<transport_calls, storeVars, raceVars, shellVars, backupVars>>

\* APIConfig.max_retries
max_retries == 3

\* the session.post calls _call_api makes for an outcome of the first: one,
\* whatever the outcome and whatever max_retries holds
session_posts_retrying(outcome, retries) ==
    IF outcome \in {"timeout", "request_failed"} THEN 1 + retries ELSE 1
session_posts(outcome, retries) == 1

\* _call_api(prompt)
GenerateCallApi(outcome, reply) ==
    /\ gen_pc = "PromptBuilt"
    /\ transport_calls' = transport_calls + session_posts(outcome, max_retries)
    /\ posts_in_call' = posts_in_call + session_posts(outcome, max_retries)
    /\ api_response' = call_api_result(outcome, reply)
    /\ gen_pc' = "Requested"
    /\ UNCHANGED <<request, result, prompt, prompt_request, prompt_repeated,
                   storeVars, raceVars, shellVars, backupVars>>

\* `if not api_response['success']`
transport_failed_never(response) == FALSE
transport_failed(response) == ~response.success

\* the rest of generate_questions: the reply is parsed and the result made
GenerateParse ==
    /\ gen_pc = "Requested"
    /\ IF transport_failed(api_response)
       THEN /\ result' = GenerationResult(FALSE, <<>>, api_response.error)
            /\ gen_pc' = "TransportFail"
       ELSE LET parsed == parse_and_validate_questions(api_response.content,
                                                       request, local_now)
            IN  IF parsed.ok
                THEN /\ result' = GenerationResult(TRUE, parsed.questions, "")
                     /\ gen_pc' = "ParsedOk"
                ELSE /\ result' = except_Exception(parsed.error).result
                     /\ gen_pc' = except_Exception(parsed.error).pc
    /\ UNCHANGED <<request, api_response, transport_calls, prompt, prompt_request,
                   prompt_repeated, posts_in_call, storeVars, raceVars, shellVars,
                   backupVars>>

\* the caller has the result; the service is ready for the next request
GenerateReturn ==
    /\ gen_pc \in {"Rejected", "TransportFail", "ParsedOk", "ParsedFail", "Raised"}
    /\ gen_pc' = "Idle"
    /\ UNCHANGED <<request, api_response, transport_calls, result, prompt,
                   prompt_request, prompt_repeated, posts_in_call, storeVars,
                   raceVars, shellVars, backupVars>>

NextPipeline ==
    \/ \E level \in RequestLevels, topic \in RequestTopics, count \in RequestCounts :
          GenerateValidate(GenerationRequest(level, topic, count, TRUE, TRUE, <<>>))
    \/ \E outcome \in TransportOutcomes \ {"content"} : GenerateCallApi(outcome, PyNone)
    \/ \E i \in 1..Len(Replies) : GenerateCallApi("content", Replies[i])
    \/ GenerateParse
    \/ GenerateReturn

SpecPipeline == Init /\ [][NextPipeline]_vars

\* the step of GenerateParse, by the position of the call alone: from
\* Requested, GenerateParse is the one step there is, it is always possible
\* and it always leaves Requested
ParseReply ==
    /\ gen_pc = "Requested"
    /\ gen_pc' \in {"TransportFail", "ParsedOk", "ParsedFail"}

\* generate_questions runs in one thread from its first statement to its
\* return, and session.post is given a timeout: a call that has begun takes
\* its next step
SpecPipelineLive ==
    /\ SpecPipeline
    /\ WF_vars(\E outcome \in TransportOutcomes, i \in 1..Len(Replies) :
                  GenerateCallApi(outcome, IF outcome = "content" THEN Replies[i]
                                           ELSE PyNone))
    /\ WF_gen_pc(ParseReply)
    /\ WF_vars(GenerateReturn)

-----------------------------------------------------------------------------
(* Claims about the validation of requests.                                 *)

\* a request with a known level, a topic of that level and a count in 1..20
WellFormed(req) ==
    /\ \E i \in 1..Len(LEVEL_ORDER) : LEVEL_ORDER[i] = req.level
    /\ req.topic \in get_level_topics(req.level)
    /\ req.count \in 1..20

\* C10: a request whose level is unknown, whose topic is not a topic of its
\* level or whose count is outside 1..20 is rejected at once with a failure
\* and an empty question list, and no transport call is ever made for it.
C10_InvalidRequestRejectedWithoutTransport ==
    [][/\ (gen_pc = "Idle" /\ gen_pc' # "Idle" /\ ~WellFormed(request')) =>
              /\ gen_pc' = "Rejected"
              /\ result'.success = FALSE
              /\ result'.questions = <<>>
              /\ transport_calls' = transport_calls
       /\ transport_calls' # transport_calls => WellFormed(request)]_vars

\* a request for 21 questions on a topic of its level was rejected, after an
\* earlier request had gone to the transport
C10_Witness ==
    /\ gen_pc = "Rejected"
    /\ request.level = "IM1"
    /\ request.topic = "Daily Routines"
    /\ request.count = 21
    /\ result.success = FALSE
    /\ result.questions = <<>>
    /\ transport_calls = 1

-----------------------------------------------------------------------------
(* Claims about failures of the pipeline.                                   *)

\* C11: whatever the request and whatever the transport call comes to (a
\* timeout, a network or status error, a reply without choices, a reply that
\* cannot be parsed, a reply with no valid element, an invalid request),
\* generate_questions returns a result with success false, no questions and
\* an error message, and no exception reaches the caller; a transport
\* failure is reported with the transport's own message.
C11_FailuresAreReportedNotRaised ==
    /\ gen_pc # "Raised"
    /\ gen_pc \in {"Rejected", "TransportFail", "ParsedFail"} =>
           /\ result.success = FALSE
           /\ result.questions = <<>>
           /\ result.error_message # ""
    /\ (gen_pc \in {"TransportFail", "ParsedOk", "ParsedFail"}
            /\ ~api_response.success) =>
           /\ gen_pc = "TransportFail"
           /\ result.error_message = api_response.error
    /\ (gen_pc \in {"ParsedOk", "ParsedFail"}
            /\ ~parse_and_validate_questions(api_response.content, request,
                                             local_now).ok) =>
           gen_pc = "ParsedFail"

\* a reply that is no JSON was reported as a failure
C11_Witness ==
    /\ gen_pc = "ParsedFail"
    /\ api_response.success
    /\ api_response.content = PyText(<<"]", "[">>)
    /\ result.success = FALSE
    /\ result.error_message = "Invalid JSON in API response"

-----------------------------------------------------------------------------
(* Claims about the parser.                                                 *)

\* replies made of prose, an array and prose
ProseWrapped ==
    {[before |-> <<"Here are the questions:", "\n">>,
      array |-> PyList(<<RawValid1, RawNoBlank>>),
      after |-> <<"\n", "Done.">>],
     [before |-> <<"Note", "[", "1", "]", ":">>,
      array |-> PyList(<<RawValid1>>),
      after |-> <<"\n", "Done.">>],
     [before |-> <<"Result:">>,
      array |-> PyList(<<RawValid2>>),
      after |-> <<"(end", "]", ")">>]}

Wrap(r) == PyText(r.before \o json_dumps(r.array) \o r.after)

\* the outcome of the call is that of validating the elements of the array
ValidatesArray(array) ==
    LET looped == validate_loop(array.v, 1, <<>>, request, local_now) IN
    /\ ~looped.raised
    /\ result.questions = looped.questions
    /\ result.success = (looped.questions # <<>>)

\* C12 as stated: for every reply made of prose, a JSON array and prose, the
\* elements validated are those of the embedded array and the prose is
\* ignored.
C12_EmbeddedArrayExtracted ==
    \A r \in ProseWrapped :
        (gen_pc \in {"ParsedOk", "ParsedFail"} /\ api_response.content = Wrap(r))
            => ValidatesArray(r.array)

\* C12, amended: the same, for prose that holds no "[" before the array and
\* no "]" after it.
C12_EmbeddedArrayExtractedFromPlainProse ==
    \A r \in ProseWrapped :
        (/\ gen_pc \in {"ParsedOk", "ParsedFail"}
         /\ api_response.content = Wrap(r)
         /\ Positions(r.before, "[") = {}
         /\ Positions(r.after, "]") = {})
            => ValidatesArray(r.array)

\* the array between "Here are the questions:" and "Done." was validated
C12_Witness ==
    /\ gen_pc = "ParsedOk"
    /\ \E r \in ProseWrapped :
          /\ r.before = <<"Here are the questions:", "\n">>
          /\ api_response.content = Wrap(r)
    /\ Len(result.questions) = 1

\* the arrays of the replies that are an array and nothing else
ReplyArrays ==
    {PyList(<<RawValid1, RawValid2, RawTwoBlanks>>),
     PyList(<<RawNoWrongAnswers, RawThreeWrong, RawValid2>>),
     PyList(<<>>),
     PyList(<<RawNoBlank, PyStr("note")>>),
     PyList(<<PyInt("5"), RawValid1>>),
     PyList(<<RawValid1, RawNumberAnswer>>)}

\* the reply of the call that was just parsed is the array a
ParsedReplyIs(a) ==
    /\ gen_pc \in {"ParsedOk", "ParsedFail"}
    /\ api_response.content.t = "str"
    /\ strip_text(api_response.content.v) = json_dumps(a)

\* the elements of an array that pass validation
ValidPositions(a) == {i \in 1..Len(a.v) : check_question(a.v[i]) = "valid"}

RECURSIVE ValidRecords(_, _)
\* the records of the valid elements of an array from element i on, in order
ValidRecords(a, i) ==
    IF i > Len(a.v) THEN <<>>
    ELSE IF i \in ValidPositions(a)
    THEN <<validated_question(a.v[i], request, local_now)>> \o ValidRecords(a, i + 1)
    ELSE ValidRecords(a, i + 1)

FirstN(seq, n) == SubSeq(seq, 1, IF Len(seq) < n THEN Len(seq) ELSE n)

\* C13: an array element that fails validation (a field missing, no blank,
\* fewer than four wrong answers, a wrong type) is skipped and never fatal:
\* a reply whose array holds a valid element gives a successful call.
C13_InvalidElementsSkipped ==
    \A a \in ReplyArrays :
        (ParsedReplyIs(a) /\ ValidPositions(a) # {}) => result.success

\* what the code does: an element that lacks a field or a blank or has fewer
\* than four wrong answers is skipped; an element or field of a wrong type
\* reached by the loop fails the whole call.
C13_WronglyTypedElementIsFatal ==
    \A a \in ReplyArrays :
        (/\ ParsedReplyIs(a)
         /\ \E i \in 1..Len(a.v) :
               /\ check_question(a.v[i]) = "raise"
               /\ Cardinality({j \in ValidPositions(a) : j < i}) < request.count)
            => ~result.success

\* C14: the list returned holds at most count records, and they are the
\* records of the first count valid elements of the array, in array order.
C14_StopsAtCount ==
    \A a \in ReplyArrays :
        (ParsedReplyIs(a) /\ gen_pc = "ParsedOk") =>
            /\ Len(result.questions) <= request.count
            /\ result.questions = FirstN(ValidRecords(a, 1), request.count)

\* one record was asked for, the array holds three valid elements, and the
\* record of the first came back
C14_Witness ==
    /\ ParsedReplyIs(PyList(<<RawValid1, RawValid2, RawTwoBlanks>>))
    /\ gen_pc = "ParsedOk"
    /\ request.count = 1
    /\ Len(result.questions) = 1
    /\ Field(result.questions[1], "correctAnswer") = PyStr("have")

\* C15: after a reply of the transport the call succeeds exactly if an
\* element of the array passes validation, and then returns the records of
\* the valid elements (the first count of them), also when they are fewer
\* than count; no further request is made.
C15_SuccessIffOneValid ==
    \A a \in ReplyArrays :
        ParsedReplyIs(a) =>
            /\ result.success <=> (ValidPositions(a) # {})
            /\ result.questions = FirstN(ValidRecords(a, 1), request.count)

\* the number of blank markers in a sentence of the model
BlankCount(str) ==
    IF str = "He _____ up at six and _____ to school." THEN 2
    ELSE IF has_blank(str) THEN 1 ELSE 0

\* C16: every record returned has a sentence with exactly one blank marker,
\* a correct answer, an explanation, exactly four wrong answers, the level
\* and topic of the request and a generation timestamp.
C16_RecordsWellFormed ==
    gen_pc = "ParsedOk" =>
        \A i \in 1..Len(result.questions) :
            LET q == result.questions[i] IN
            /\ BlankCount(Field(q, "sentence").v) = 1
            /\ Field(q, "correctAnswer").t = "str"
            /\ Field(q, "explanation").t = "str"
            /\ Len(Field(q, "wrongAnswers").v) = 4
            /\ Field(q, "level") = PyStr(request.level)
            /\ Field(q, "topic") = PyStr(request.topic)
            /\ Field(q, "generated_at") = PyStr(iso_string(local_now))

-----------------------------------------------------------------------------
(* Prompt construction among the other operations.                          *)

\* requests that differ from one another in each of the inputs of the prompt
\* (the last names a topic of another level and is rejected)
PromptRequests ==
    {GenerationRequest("IM1", "Daily Routines", 1, TRUE, TRUE, <<>>),
     GenerationRequest("IM1", "Daily Routines", 2, TRUE, TRUE, <<>>),
     GenerationRequest("IM2", "Travel & Vacations", 1, TRUE, TRUE, <<>>),
     GenerationRequest("IM1", "Daily Routines", 1, FALSE, TRUE, <<>>),
     GenerationRequest("IM1", "Daily Routines", 1, TRUE, FALSE, <<>>),
     GenerationRequest("IM1", "Daily Routines", 1, TRUE, TRUE,
                       <<"Articles", "Phrasal verbs">>),
     GenerationRequest("IM2", "Travel & Vacations", 2, FALSE, FALSE,
                       <<"Articles", "Phrasal verbs">>),
     GenerationRequest("IM2", "Daily Routines", 1, TRUE, TRUE, <<>>)}

\* the requests served while the clock runs and a setting is written
NextPrompt ==
    \/ \E req \in PromptRequests : GenerateValidate(req)
    \/ GenerateCallApi("timeout", PyNone)
    \/ GenerateCallApi("content", Replies[2])
    \/ GenerateParse
    \/ GenerateReturn
    \/ Tick
    \/ SetSetting("language", 4)

SpecPrompt == Init /\ [][NextPrompt]_vars

-----------------------------------------------------------------------------
(* User progress and game sessions.                                         *)

MaxSessions == 2
MaxDays == 2

\* the row SELECT * FROM user_progress WHERE id = 1 fetches, in a set
UserRows(table) == {row \in table : row.id = 1}

\* _get_default_progress()
get_default_progress ==
    [current_level |-> "IM1", unlocked_levels |-> PyList(<<PyStr("IM1")>>),
     total_score |-> 0, current_streak |-> 0, best_streak |-> 0,
     total_questions |-> 0, correct_answers |-> 0,
     last_played |-> PyNone, accuracy |-> 0]

\* get_user_progress() on a table; the accuracy of the counters of the model
\* is a whole number
get_user_progress(table) ==
    IF UserRows(table) # {}
    THEN LET row == CHOOSE r \in UserRows(table) : TRUE IN
         [current_level |-> row.current_level,
          unlocked_levels |-> json_loads(row.unlocked_levels).val,
          total_score |-> row.total_score, current_streak |-> row.current_streak,
          best_streak |-> row.best_streak, total_questions |-> row.total_questions,
          correct_answers |-> row.correct_answers, last_played |-> row.last_played,
          accuracy |-> IF row.total_questions > 0
                       THEN (row.correct_answers * 100) \div row.total_questions
                       ELSE 0]
    ELSE get_default_progress

\* the progress dictionaries update_user_progress is given
ProgressZero ==
    [total_score |-> 0, current_streak |-> 0, best_streak |-> 0,
     total_questions |-> 0, correct_answers |-> 0]
ProgressPlayed ==
    [total_score |-> 80, current_streak |-> 3, best_streak |-> 3,
     total_questions |-> 10, correct_answers |-> 8]
ProgressDict(level, unlocked, c) ==
    [current_level |-> level, unlocked_levels |-> unlocked,
     total_score |-> c.total_score, current_streak |-> c.current_streak,
     best_streak |-> c.best_streak, total_questions |-> c.total_questions,
     correct_answers |-> c.correct_answers]
ProgressInputs ==
    {ProgressDict("IM1", <<"IM1">>, ProgressZero),
     ProgressDict("IM1", <<"IM1">>, ProgressPlayed),
     ProgressDict("IM2", <<"IM1", "IM2">>, ProgressPlayed),
     ProgressDict("IM2", <<"IM1">>, ProgressPlayed)}

\* the row a progress dictionary is written to, with the id given
UserRowOf(id, progress) ==
    [id |-> id,
     current_level |-> progress.current_level,
     unlocked_levels |->
         json_dumps(PyList([i \in 1..Len(progress.unlocked_levels) |->
                               PyStr(progress.unlocked_levels[i])])),
     total_score |-> progress.total_score,
     current_streak |-> progress.current_streak,
     best_streak |-> progress.best_streak,
     total_questions |-> progress.total_questions,
     correct_answers |-> progress.correct_answers,
     last_played |-> CURRENT_TIMESTAMP]

\* UPDATE user_progress SET ... WHERE id = 1
UpdatedUserRows_as_insert(table, progress) ==
    table \cup {UserRowOf(Cardinality(table) + 1, progress)}
UpdatedUserRows(table, progress) ==
    (table \ UserRows(table)) \cup {UserRowOf(row.id, progress) : row \in UserRows(table)}

\* update_user_progress(progress)
UpdateUserProgress(progress) ==
    /\ user_progress' = UpdatedUserRows(user_progress, progress)
    /\ op' = [name |-> "update_user_progress", level |-> progress.current_level,
              topic |-> ""]
    /\ ret' = PyNone
    /\ UNCHANGED <<progressVars, cacheVars, settingVars, clockVars, sessionVars,
                   raceVars, genVars,
                   schemaVars, shellVars, backupVars>>

\* get_user_progress()
GetUserProgress ==
    /\ op' = [name |-> "get_user_progress", level |-> "", topic |-> ""]
    /\ ret' = get_user_progress(user_progress)
    /\ UNCHANGED <<progressVars, cacheVars, settingVars, clockVars, userVars,
                   sessionVars, raceVars, genVars,
                   schemaVars, shellVars, backupVars>>

\* the sessions save_game_session is given
SessionInputs ==
    {[level |-> "IM1", topic |-> "Daily Routines", score |-> 8,
      total_questions |-> 10, accuracy |-> 80, duration |-> 120, streak |-> 3,
      questions |-> PyList(<<Question1>>), answers |-> PyList(<<PyStr("have")>>)],
     [level |-> "IM2", topic |-> "Travel & Vacations", score |-> 3,
      total_questions |-> 5, accuracy |-> 60, duration |-> 90, streak |-> 0,
      questions |-> PyList(<<>>), answers |-> PyList(<<>>)]}

\* INSERT INTO game_sessions (...) VALUES (...)
SessionRow(id, session_data) ==
    [id |-> id,
     level |-> session_data.level, topic |-> session_data.topic,
     score |-> session_data.score,
     total_questions |-> session_data.total_questions,
     accuracy |-> session_data.accuracy, duration |-> session_data.duration,
     streak |-> session_data.streak,
     questions_data |-> json_dumps(session_data.questions),
     answers_data |-> json_dumps(session_data.answers),
     completed_at |-> CURRENT_TIMESTAMP]
\* the id is AUTOINCREMENT: one more than the largest id ever given
InsertSession_id_by_count(table, seq, session_data) ==
    {row \in table : row.id # Cardinality(table) + 1}
        \cup {SessionRow(Cardinality(table) + 1, session_data)}
InsertSession(table, seq, session_data) ==
    table \cup {SessionRow(seq + 1, session_data)}

\* save_game_session(session_data)
SaveGameSession(session_data) ==
    /\ gs_seq < MaxSessions
    /\ game_sessions' = InsertSession(game_sessions, gs_seq, session_data)
    /\ gs_seq' = gs_seq + 1
    /\ op' = [name |-> "save_game_session", level |-> session_data.level,
              topic |-> session_data.topic]
    /\ ret' = PyNone
    /\ UNCHANGED <<progressVars, cacheVars, settingVars, clockVars, userVars,
                   raceVars, genVars,
                   schemaVars, shellVars, backupVars>>

\* the retention periods cleanup_old_data is given, in days
RetentionDays == {0, 1}

\* DELETE FROM game_sessions WHERE completed_at < datetime('now', '-N days')
OldSessions(table, days) ==
    {row \in table :
        TextLess(row.completed_at, sqlite_datetime(now - days * HoursPerDay))}

\* cleanup_old_data(days): old sessions and expired cache rows are deleted
CleanupOldData(days) ==
    /\ game_sessions' = game_sessions \ OldSessions(game_sessions, days)
    /\ questions_cache' = questions_cache \ SweptRows(questions_cache)
    /\ cache_log' = [key \in StoreKeys |-> [cache_log[key] EXCEPT !.swept = TRUE]]
    /\ op' = [name |-> "cleanup_old_data", level |-> "", topic |-> "", days |-> days]
    /\ ret' = PyNone
    /\ UNCHANGED <<gs_seq, qc_seq, progressVars, settingVars, clockVars, userVars,
                   raceVars, genVars,
                   schemaVars, shellVars, backupVars>>

\* a day passes
DayPasses ==
    /\ now < StartTime + MaxDays * HoursPerDay
    /\ now' = now + HoursPerDay
    /\ op' = [name |-> "tick", level |-> "", topic |-> ""]
    /\ ret' = PyNone
    /\ UNCHANGED <<tz, progressVars, cacheVars, settingVars, userVars, sessionVars,
                   raceVars, genVars,
                   schemaVars, shellVars, backupVars>>

-----------------------------------------------------------------------------
(* Transactions.  get_connection opens a connection, hands it to the body   *)
(* of the with statement, and on an exception calls conn.rollback() and     *)
(* raises again.  The sqlite3 module begins a transaction before the first  *)
(* INSERT, UPDATE, DELETE or REPLACE of a connection; a CREATE TABLE        *)
(* executed while no transaction is open is committed by SQLite as soon as  *)
(* it has run.                                                              *)

\* init_database calls in one behaviour, after the first
MaxInits == 1

\* the durable content of the database file
Store ==
    [schema |-> schema, user_progress |-> user_progress,
     topic_progress |-> topic_progress, tp_seq |-> tp_seq,
     questions_cache |-> questions_cache, qc_seq |-> qc_seq,
     game_sessions |-> game_sessions, gs_seq |-> gs_seq,
     app_settings |-> app_settings, as_seq |-> as_seq]

\* the file holds what a connection has committed
StoreBecomes(db) ==
    /\ schema' = db.schema
    /\ user_progress' = db.user_progress
    /\ topic_progress' = db.topic_progress
    /\ tp_seq' = db.tp_seq
    /\ questions_cache' = db.questions_cache
    /\ qc_seq' = db.qc_seq
    /\ game_sessions' = db.game_sessions
    /\ gs_seq' = db.gs_seq
    /\ app_settings' = db.app_settings
    /\ as_seq' = db.as_seq

\* INSERT OR IGNORE INTO app_settings under setting_key UNIQUE
InsertOrIgnore_replacing(table, row) == UpsertSetting(table, row)
InsertOrIgnore(table, row) ==
    IF SettingRows(table, row.setting_key) = {} THEN table \cup {row} ELSE table

\* the statements init_database executes, in order
init_database_statements ==
    <<[kind |-> "create", table |-> "user_progress"],
      [kind |-> "create", table |-> "topic_progress"],
      [kind |-> "create", table |-> "questions_cache"],
      [kind |-> "create", table |-> "game_sessions"],
      [kind |-> "create", table |-> "app_settings"],
      [kind |-> "insert_user"]>>
    \o [i \in 1..Cardinality(DefaultSettings) |->
           [kind |-> "insert_setting",
            row |-> CHOOSE d \in DefaultSettings : d.id = i]]

\* the statements update_topic_progress executes: the SELECT of
\* get_topic_progress, then the INSERT OR REPLACE
update_topic_progress_statements(level, topic, score, total_questions, correct_answers) ==
    <<[kind |-> "select_topic", level |-> level, topic |-> topic],
      [kind |-> "replace_topic", level |-> level, topic |-> topic, score |-> score,
       total_questions |-> total_questions, correct_answers |-> correct_answers]>>

\* the statements cleanup_old_data executes
cleanup_old_data_statements(days) ==
    <<[kind |-> "delete_sessions", days |-> days], [kind |-> "delete_cache"]>>

\* a CREATE TABLE statement
IsDDL(stmt) == stmt.kind = "create"

\* cursor.execute(stmt) on the content db the connection sees
Exec(stmt, db) ==
    CASE stmt.kind = "create" ->
            [db EXCEPT !.schema = @ \cup {stmt.table}]
      [] stmt.kind = "insert_user" ->
            [db EXCEPT !.user_progress =
                IF UserRows(@) = {} THEN @ \cup {DefaultUserRow(now)} ELSE @]
      \* the id is taken from the sequence whether or not the row is ignored
      [] stmt.kind = "insert_setting" ->
            [db EXCEPT !.app_settings =
                          InsertOrIgnore(@, [stmt.row EXCEPT !.id = db.as_seq + 1]),
                       !.as_seq = @ + 1]
      [] stmt.kind = "select_topic" -> db
      [] stmt.kind = "replace_topic" ->
            [db EXCEPT !.topic_progress =
                          InsertOrReplace(@,
                              MergedTopicRow(db.tp_seq + 1,
                                  get_topic_progress(db.topic_progress, stmt.level,
                                                     stmt.topic),
                                  stmt.level, stmt.topic, stmt.score,
                                  stmt.total_questions, stmt.correct_answers)),
                       !.tp_seq = @ + 1]
      [] stmt.kind = "delete_sessions" ->
            [db EXCEPT !.game_sessions = @ \ OldSessions(@, stmt.days)]
      [] stmt.kind = "delete_cache" ->
            [db EXCEPT !.questions_cache = @ \ SweptRows(@)]

\* conn.rollback(): the connection's uncommitted changes are dropped
rollback_keeping_changes(committed, working) == working
rollback(committed, working) == committed

\* no statement fails
NoFault == 0

RECURSIVE Transact(_, _, _, _, _, _)
\* the body of `with self.get_connection() as conn`, from statement i on: the
\* statements, then conn.commit(); fault_at names the statement that raises
\* (one past the last: the commit).  The content of the file afterwards.
Transact(stmts, i, fault_at, committed, working, in_transaction) ==
    IF i = fault_at THEN rollback(committed, working)
    ELSE IF i > Len(stmts) THEN working
    ELSE IF IsDDL(stmts[i]) /\ ~in_transaction
    THEN Transact(stmts, i + 1, fault_at, Exec(stmts[i], working),
                  Exec(stmts[i], working), FALSE)
    ELSE Transact(stmts, i + 1, fault_at, committed, Exec(stmts[i], working), TRUE)

\* init_database()
InitDatabase ==
    /\ as_seq + Cardinality(DefaultSettings)
          <= Cardinality(DefaultSettings) * (1 + MaxInits) + MaxSettingWrites
    /\ StoreBecomes(Transact(init_database_statements, 1, NoFault, Store, Store, FALSE))
    /\ op' = [name |-> "init_database", level |-> "", topic |-> ""]
    /\ ret' = PyNone
    /\ UNCHANGED <<calls, cache_log, setting_log, clockVars, raceVars, genVars,
                   shellVars, backupVars>>

\* an operation whose statement fault_at raises sqlite3.OperationalError
Faulted(name, stmts, fault_at) ==
    /\ StoreBecomes(Transact(stmts, 1, fault_at, Store, Store, FALSE))
    /\ op' = [name |-> name, level |-> "", topic |-> "", fault_at |-> fault_at]
    /\ ret' = PyRaise("OperationalError")
    /\ UNCHANGED <<calls, cache_log, setting_log, clockVars, raceVars, genVars,
                   shellVars, backupVars>>

NextUser ==
    \/ \E progress \in ProgressInputs : UpdateUserProgress(progress)
    \/ GetUserProgress
    \/ InitDatabase
    \/ \E session_data \in SessionInputs : SaveGameSession(session_data)
    \/ \E days \in RetentionDays : CleanupOldData(days)
    \/ UpdateTopicProgress("IM1", "Daily Routines", 80, 10, 9)
    \/ DayPasses

SpecUser == Init /\ [][NextUser]_vars

-----------------------------------------------------------------------------
(* Claims about user progress and game sessions.                            *)

\* the level codes of the stored unlocked_levels
UnlockedSet(table) ==
    UNION {{json_loads(row.unlocked_levels).val.v[i].v :
               i \in 1..Len(json_loads(row.unlocked_levels).val.v)} :
           row \in UserRows(table)}

\* C18: whatever update_user_progress calls are made, the stored
\* unlocked_levels never loses a level it held, and the stored current_level
\* is one of the unlocked levels.
C18_UnlockedNeverShrinks ==
    [][/\ UnlockedSet(user_progress) \subseteq UnlockedSet(user_progress')
       /\ \A row \in UserRows(user_progress') :
              row.current_level \in UnlockedSet(user_progress')]_vars

\* C19: the user_progress table holds exactly one row, with id 1, whatever
\* store operations are performed (init_database again among them); on a
\* table without a row get_user_progress returns level IM1, unlocked [IM1]
\* and zero counters.
C19_SingletonRow ==
    /\ Cardinality(user_progress) = 1
    /\ \A row \in user_progress : row.id = 1
    /\ LET none == get_user_progress({}) IN
       /\ none.current_level = "IM1"
       /\ none.unlocked_levels = PyList(<<PyStr("IM1")>>)
       /\ none.total_score = 0 /\ none.current_streak = 0 /\ none.best_streak = 0
       /\ none.total_questions = 0 /\ none.correct_answers = 0
    /\ op.name = "get_user_progress" =>
          \E row \in user_progress :
              /\ ret.current_level = row.current_level
              /\ ret.total_questions = row.total_questions

\* the progress was rewritten, a session saved, and init_database run again
C19_Witness ==
    /\ op.name = "init_database"
    /\ gs_seq > 0
    /\ \E row \in user_progress :
          row.current_level = "IM2" /\ row.total_questions = 10

\* the hour a stored completed_at names
HourOf(text) == text[1] * HoursPerDay + text[3]

\* C20: save_game_session adds exactly one row, with an id never given
\* before, and leaves the other rows as they are; no operation changes a
\* stored row; rows are removed by cleanup_old_data alone, and only rows
\* older than the number of days it is given.
C20_SessionsAppendOnly ==
    [][/\ op'.name = "save_game_session" =>
              /\ game_sessions \subseteq game_sessions'
              /\ Cardinality(game_sessions' \ game_sessions) = 1
              /\ \A row \in game_sessions' \ game_sessions : row.id > gs_seq
       /\ op'.name # "save_game_session" => game_sessions' \subseteq game_sessions
       /\ \A old \in game_sessions, new \in game_sessions' :
              old.id = new.id => old = new
       /\ (game_sessions \ game_sessions') # {} =>
              /\ op'.name = "cleanup_old_data"
              /\ \A row \in game_sessions \ game_sessions' :
                     HourOf(row.completed_at) < now - op'.days * HoursPerDay]_vars

\* a session was saved, cleanup_old_data removed it on a later day, and the
\* next session saved has the id 2
C20_Witness ==
    /\ op.name = "save_game_session"
    /\ gs_seq = 2
    /\ Cardinality(game_sessions) = 1
    /\ \A row \in game_sessions : row.id = 2 /\ HourOf(row.completed_at) > StartTime

-----------------------------------------------------------------------------
(* Storage faults.  A behaviour starts from a database file that does not  *)
(* exist yet (sqlite3.connect creates it empty); any statement of an       *)
(* operation, or its commit, may raise sqlite3.OperationalError.            *)

\* the file sqlite3.connect creates: no table
InitFresh ==
    /\ topic_progress = {}
    /\ tp_seq = 0
    /\ calls = <<>>
    /\ questions_cache = {}
    /\ qc_seq = 0
    /\ cache_log = [key \in StoreKeys |-> NoCacheCall]
    /\ app_settings = {}
    /\ as_seq = 0
    /\ setting_log = [key \in SettingKeys |-> 0]
    /\ user_progress = {}
    /\ game_sessions = {}
    /\ gs_seq = 0
    /\ schema = {}
    /\ op = [name |-> "connect", level |-> "", topic |-> ""]
    /\ ret = PyNone
    /\ now = StartTime
    /\ tz = 0
    /\ InitRace
    /\ InitPipeline
    /\ InitShell
    /\ InitBackup

\* the session saved between the faults
FaultSession == CHOOSE session_data \in SessionInputs : session_data.level = "IM1"

\* the operations of an application run, each of which may fail at any of
\* its statements; the application calls init_database before anything else
\* (main.py) and goes on only when it returned; each table is written while
\* it is empty
NextFault ==
    \/ InitDatabase
    \/ \E k \in 1..(Len(init_database_statements) + 1) :
          Faulted("init_database", init_database_statements, k)
    \/ /\ schema = Tables /\ topic_progress = {}
       /\ UpdateTopicProgress("IM1", "Daily Routines", 80, 10, 9)
    \/ \E k \in 1..3 :
          /\ schema = Tables
          /\ Faulted("update_topic_progress",
                     update_topic_progress_statements("IM1", "Daily Routines", 90, 5, 5), k)
    \/ schema = Tables /\ game_sessions = {} /\ SaveGameSession(FaultSession)
    \/ schema = Tables /\ questions_cache = {} /\ CacheQuestions("IM1", "Daily Routines", 2, 1)
    \/ schema = Tables /\ \E days \in RetentionDays : CleanupOldData(days)
    \/ \E days \in RetentionDays, k \in 1..3 :
          /\ schema = Tables
          /\ Faulted("cleanup_old_data", cleanup_old_data_statements(days), k)
    \/ DayPasses

SpecFault == InitFresh /\ [][NextFault]_vars

\* the last operation raised a storage fault
StorageFault(r) == r.t = "raise" /\ r.v = "OperationalError"

\* C21: an operation that hits a storage fault at any of its statements
\* (update_topic_progress, cleanup_old_data and init_database among them)
\* raises the fault to its caller and leaves the content of the database
\* file exactly as it was when the operation started.
C21_FaultLeavesStoreUntouched ==
    [][StorageFault(ret') => Store' = Store]_vars

\* what the code does: the rows and sequences are those from before the
\* operation, and so is the schema unless the operation is init_database on
\* a file that lacks a table: the tables created before the fault stay.
C21_FaultRollsBackRowsOnly ==
    [][StorageFault(ret') =>
          /\ Store' = [Store EXCEPT !.schema = schema']
          /\ schema \subseteq schema'
          /\ (op'.name # "init_database" \/ schema = Tables) => schema' = schema]_vars

\* cleanup_old_data failed at its commit with an old session and an expired
\* cache row to delete, and both are still there
C21_RollbackWitness ==
    /\ StorageFault(ret)
    /\ op.name = "cleanup_old_data"
    /\ op.fault_at = 3
    /\ OldSessions(game_sessions, 1) # {}
    /\ SweptRows(questions_cache) # {}

-----------------------------------------------------------------------------
(* Claims about the order of the steps of generate_questions.               *)

\* the states in which generate_questions returns
Terminal == {"Rejected", "TransportFail", "ParsedOk", "ParsedFail"}

\* C22: a generate_questions call goes from Idle to PromptBuilt (or returns
\* at once, rejected), from PromptBuilt to Requested, and from Requested to
\* one of ParsedOk, ParsedFail and TransportFail; the transport is invoked
\* only with the prompt built, the reply is parsed only after the transport
\* succeeded, and every call reaches a terminal state and returns to Idle.
C22_StateOrder ==
    /\ [][/\ gen_pc' # gen_pc =>
                \/ gen_pc = "Idle" /\ gen_pc' \in {"PromptBuilt", "Rejected"}
                \/ gen_pc = "PromptBuilt" /\ gen_pc' = "Requested"
                \/ gen_pc = "Requested" /\ gen_pc' \in Terminal \ {"Rejected"}
                \/ gen_pc \in Terminal /\ gen_pc' = "Idle"
          /\ transport_calls' # transport_calls =>
                /\ gen_pc = "PromptBuilt"
                /\ prompt = create_comprehensive_prompt(request, get_level(request.level))
          /\ (gen_pc' # gen_pc /\ gen_pc' \in {"ParsedOk", "ParsedFail"}) =>
                gen_pc = "Requested" /\ api_response.success
          /\ (gen_pc' # gen_pc /\ gen_pc' = "TransportFail") =>
                gen_pc = "Requested" /\ ~api_response.success]_vars
    /\ (gen_pc \in {"PromptBuilt", "Requested"}) ~> (gen_pc \in Terminal)
    /\ (gen_pc # "Idle") ~> (gen_pc = "Idle")

\* a second call was served after a transport failure of the first, its
\* reply was parsed, and the service is idle again
C22_Witness ==
    /\ gen_pc = "Idle"
    /\ transport_calls = 2
    /\ api_response.success
    /\ result.success

\* C23: a generate_questions call makes at most one transport request;
\* after a timeout or another transport failure the call returns a failure
\* and no further request is made, whatever max_retries holds.
C23_AtMostOnePostPerCall ==
    [][/\ posts_in_call' <= 1
       /\ transport_calls' # transport_calls =>
             /\ posts_in_call = 0
             /\ transport_calls' = transport_calls + 1
       /\ gen_pc = "TransportFail" =>
             /\ ~result.success
             /\ result.error_message = api_response.error
             /\ transport_calls' = transport_calls]_vars

\* the second call timed out after its one request and was reported
C23_Witness ==
    /\ gen_pc = "TransportFail"
    /\ api_response.error = "API request timed out"
    /\ result.error_message = "API request timed out"
    /\ posts_in_call = 1
    /\ transport_calls = 2
    /\ max_retries > 0

-----------------------------------------------------------------------------
(* The connection test of the main window.  test_api_connection runs in    *)
(* the GUI thread each time the user triggers it; APITestThread.run makes  *)
(* the HTTP call in a thread of its own and emits `finished`, whose slot   *)
(* on_api_test_finished runs in the GUI thread again.                       *)

\* connection tests triggered in one behaviour
MaxApiTests == 3

\* the positions of an APITestThread whose HTTP call is not over yet
Running == {"started", "in_flight"}

\* MainWindow.test_api_connection(), with an API key configured: the progress
\* bar is shown and a new APITestThread is created and started
TestApiConnection ==
    /\ Len(api_threads) < MaxApiTests
    /\ progress_bar' = TRUE
    /\ api_threads' = Append(api_threads, "started")
    /\ UNCHANGED <<storeVars, raceVars, genVars, backupVars>>

\* APITestThread.run: ai_service.test_api_connection() reaches session.post
ApiTestPost(t) ==
    /\ api_threads[t] = "started"
    /\ api_threads' = [api_threads EXCEPT ![t] = "in_flight"]
    /\ transport_calls' = transport_calls + session_posts("content", max_retries)
    /\ UNCHANGED <<progress_bar, gen_pc, request, api_response, result, prompt,
                   prompt_request, prompt_repeated, posts_in_call, storeVars,
                   raceVars, backupVars>>

\* the HTTP call is over and the thread emits finished(success, message)
ApiTestReply(t, outcome) ==
    /\ api_threads[t] = "in_flight"
    /\ api_threads' =
          [api_threads EXCEPT ![t] =
              IF call_api_result(outcome, PyNone).success THEN "emitted_success"
              ELSE "emitted_failure"]
    /\ UNCHANGED <<progress_bar, storeVars, raceVars, genVars, backupVars>>

\* MainWindow.on_api_test_finished(success, message)
OnApiTestFinished(t) ==
    /\ api_threads[t] \in {"emitted_success", "emitted_failure"}
    /\ progress_bar' = FALSE
    /\ api_threads' = [api_threads EXCEPT ![t] = "done"]
    /\ UNCHANGED <<storeVars, raceVars, genVars, backupVars>>

NextShell ==
    \/ TestApiConnection
    \/ \E t \in 1..Len(api_threads) : ApiTestPost(t)
    \/ \E t \in 1..Len(api_threads), outcome \in {"content", "timeout"} :
          ApiTestReply(t, outcome)
    \/ \E t \in 1..Len(api_threads) : OnApiTestFinished(t)

SpecShell == Init /\ [][NextShell]_vars

\* C24: at most one API worker is running at any time: the window starts no
\* second APITestThread while one it started before has not finished its
\* HTTP call.
C24_OneWorkerAtATime ==
    Cardinality({t \in 1..Len(api_threads) : api_threads[t] \in Running}) <= 1

-----------------------------------------------------------------------------
(* backup_database against a writer on the same file (a second process of  *)
(* the application, or a thread): shutil.copy2 reads the file page after    *)
(* page and takes no lock; a commit writes its changed pages one after the  *)
(* other.  The file is the page of sqlite_sequence followed by the page of *)
(* the table game_sessions.                                                 *)

\* the pages of the database file
File == <<gs_seq, game_sessions>>

\* the writer's save_game_session reaches conn.commit(): the pages the
\* INSERT changed are queued for writing, in the order of their page numbers
BeginCommit(session_data) ==
    /\ wr_pending = <<>>
    /\ gs_seq < MaxSessions
    /\ wr_pending' =
          <<[page |-> 1, content |-> gs_seq + 1],
            [page |-> 2, content |-> InsertSession(game_sessions, gs_seq, session_data)]>>
    /\ committed_log' = committed_log \cup {File}
    /\ UNCHANGED <<copy_pos, backup_file, storeVars, raceVars, genVars, shellVars>>

\* the commit writes its next page to the file
WritePage ==
    /\ wr_pending # <<>>
    /\ IF Head(wr_pending).page = 1
       THEN gs_seq' = Head(wr_pending).content /\ UNCHANGED game_sessions
       ELSE game_sessions' = Head(wr_pending).content /\ UNCHANGED gs_seq
    /\ wr_pending' = Tail(wr_pending)
    /\ committed_log' = IF Tail(wr_pending) = <<>>
                        THEN committed_log \cup {File'} ELSE committed_log
    /\ UNCHANGED <<copy_pos, backup_file, progressVars, cacheVars, settingVars,
                   clockVars, userVars, schemaVars, op, ret, raceVars, genVars,
                   shellVars>>

\* backup_database(backup_path) begins: shutil.copy2 opens both files
BackupStart ==
    /\ copy_pos = 0
    /\ copy_pos' = 1
    /\ backup_file' = <<>>
    /\ committed_log' = IF wr_pending = <<>> THEN committed_log \cup {File}
                        ELSE committed_log
    /\ UNCHANGED <<wr_pending, storeVars, raceVars, genVars, shellVars>>

\* shutil.copy2 copies the next page; after the last one backup_database
\* returns True
CopyPage ==
    /\ copy_pos \in 1..Len(File)
    /\ backup_file' = Append(backup_file, File[copy_pos])
    /\ copy_pos' = IF copy_pos < Len(File) THEN copy_pos + 1 ELSE 0
    /\ UNCHANGED <<wr_pending, committed_log, storeVars, raceVars, genVars, shellVars>>

NextBackup ==
    \/ \E session_data \in SessionInputs : BeginCommit(session_data)
    \/ WritePage
    \/ BackupStart
    \/ CopyPage
    \/ Tick

SpecBackup == Init /\ [][NextBackup]_vars

\* C25: the file backup_database has produced is the content the database
\* file had between two commits: that from before or that from after each
\* write going on while it was copied, never a mixture of the two.
C25_BackupIsACommittedState ==
    (copy_pos = 0 /\ backup_file # <<>>) => backup_file \in committed_log

\* a backup made while no write was going on is the content of the file
C25_QuietBackupWitness ==
    /\ copy_pos = 0
    /\ backup_file = File
    /\ gs_seq = 1


-----------------------------------------------------------------------------
(* One cache row per key.                                                   *)

\* C26: the question cache holds at most one row per (level, topic);
\* cache_questions on a key that has a row replaces it, so the row of a key
\* carries the records and the expiry time of the key's last cache_questions
\* call, and a list that get_cached_questions returns is the list cached last.
C26_OneRowPerKey ==
    /\ \A key \in StoreKeys :
          Cardinality(RowsOf(questions_cache, key[1], key[2])) <= 1
    /\ \A row \in questions_cache :
          LET last == cache_log[<<row.level, row.topic>>] IN
          /\ last.q # 0
          /\ row.question_data = json_dumps(QuestionLists[last.q])
          /\ fromisoformat(row.expires_at) = last.expires
    /\ (op.name = "get_cached_questions" /\ ret.t = "list")
          => PyEq(ret, QuestionLists[LastCached.q])

\* one key was cached twice, and the read returned the second list from the
\* only row
C26_Witness ==
    /\ op.name = "get_cached_questions"
    /\ qc_seq = 2
    /\ \A key \in StoreKeys : key # <<op.level, op.topic>> => cache_log[key].q = 0
    /\ questions_cache \subseteq {row \in questions_cache : row.id = 2}
    /\ Cardinality(questions_cache) = 1
    /\ LastCached.q = 2
    /\ ret.t = "list"
    /\ Len(ret.v) = 1


-----------------------------------------------------------------------------
(* The shape of the result of generate_questions.                           *)

\* C27: every result generate_questions returns is of one of two shapes: with
\* success true the question list is not empty and there is no error message
\* (error_message is left None, written "" here); with success false the
\* question list is empty and there is an error message.
C27_ResultShape ==
    gen_pc \in Terminal =>
        /\ result.success =>
              /\ result.questions # <<>>
              /\ result.error_message = ""
        /\ ~result.success =>
              /\ result.questions = <<>>
              /\ result.error_message # ""

\* the reply was the empty array, and the call returned a failure with a
\* message and no questions
C27_Witness ==
    /\ gen_pc = "ParsedFail"
    /\ api_response.success
    /\ api_response.content = PyText(json_dumps(PyList(<<>>)))
    /\ ~result.success
    /\ result.questions = <<>>
    /\ result.error_message =
          "Question validation failed: No valid questions found in response"


-----------------------------------------------------------------------------
(* init_database on a store that is in use.  OpicApplication runs           *)
(* initialize_database at every start, so init_database meets the rows of   *)
(* earlier runs.                                                            *)

\* the values the settings are changed to before the next start
ChangedValues == {2, 5}

\* the store is written to, and the application is started again
NextRestart ==
    \/ \E key \in SettingKeys, i \in ChangedValues : SetSetting(key, i)
    \/ \E progress \in ProgressInputs : UpdateUserProgress(progress)
    \/ UpdateTopicProgress("IM1", "Daily Routines", 80, 10, 9)
    \/ questions_cache = {} /\ CacheQuestions("IM1", "Daily Routines", 2, 1)
    \/ game_sessions = {} /\ SaveGameSession(FaultSession)
    \/ InitDatabase

SpecRestart == Init /\ [][NextRestart]_vars

\* C28: init_database run again on an initialized store leaves the
\* user_progress row, the topic progress, the cache rows, the sessions and
\* every row of app_settings (key, value and id, also of a setting the user
\* changed or added) as they are, and the tables in place.
C28_InitKeepsUserData ==
    [][op'.name = "init_database" =>
          /\ schema' = schema
          /\ user_progress' = user_progress
          /\ topic_progress' = topic_progress
          /\ questions_cache' = questions_cache
          /\ game_sessions' = game_sessions
          /\ app_settings' = app_settings]_vars

\* init_database has run on a store in which the language was changed from
\* its default, a setting was added, and progress, a cache row and a session
\* were recorded
C28_Witness ==
    /\ op.name = "init_database"
    /\ as_seq = 2 * Cardinality(DefaultSettings) + 2
    /\ \E row \in SettingRows(app_settings, "language") : row.setting_value # <<"vi">>
    /\ SettingRows(app_settings, "timeout") # {}
    /\ \E row \in user_progress : row.total_score = 80
    /\ topic_progress # {}
    /\ questions_cache # {}
    /\ game_sessions # {}


-----------------------------------------------------------------------------
(* Replies that begin with the array.                                       *)

\* replies made of an array followed by text
Trailed ==
    {[array |-> PyList(<<RawValid1>>), after |-> <<"\n", "Done.">>],
     [array |-> PyList(<<RawValid1>>), after |-> <<"See", "[", "1", "]">>]}

\* the reply just parsed, trimmed
TrimmedReply == strip_text(api_response.content.v)

\* C29: when the trimmed reply starts with "[", nothing is cut out of it: the
\* whole reply is given to json.loads, and the call fails with the JSON error
\* exactly if the whole reply is no JSON.  So a reply that starts with the
\* array and goes on with text after the array's "]" is a parse failure, and
\* the array in it is not used.
C29_LeadingBracketParsedWhole ==
    (/\ gen_pc \in {"ParsedOk", "ParsedFail"}
     /\ api_response.content.t = "str"
     /\ TrimmedReply # <<>>
     /\ TrimmedReply[1] = "[")
    => /\ extract_array(TrimmedReply) = [found |-> TRUE, text |-> TrimmedReply]
       /\ ~json_loads(TrimmedReply).ok <=>
              /\ gen_pc = "ParsedFail"
              /\ result.error_message = "Invalid JSON in API response"
       /\ \A r \in Trailed :
             api_response.content = PyText(json_dumps(r.array) \o r.after) =>
                 /\ gen_pc = "ParsedFail"
                 /\ result.questions = <<>>
                 /\ result.error_message = "Invalid JSON in API response"

\* the reply was an array with a valid element, a line break and "Done.",
\* and the call failed on the JSON
C29_Witness ==
    /\ gen_pc = "ParsedFail"
    /\ api_response.success
    /\ api_response.content =
          PyText(json_dumps(PyList(<<RawValid1>>)) \o <<"\n", "Done.">>)
    /\ request.count = 1
    /\ ~result.success
    /\ result.error_message = "Invalid JSON in API response"


-----------------------------------------------------------------------------
(* MainWindow.clear_cache: the menu action that empties the question cache. *)

\* the text '2000-01-01': a date with no time of day, of a day before day 0
\* of the clock
ClearedExpiry == <<-1>>

ExpireAll_none(table) == table
\* UPDATE questions_cache SET expires_at = '2000-01-01'
ExpireAll(table) == {[row EXCEPT !.expires_at = ClearedExpiry] : row \in table}

\* clear_cache(), with the user's reply to the question box and no error: on
\* Yes, clear_expired_cache() and then the UPDATE of every row left
ClearCache(reply) ==
    /\ IF reply = "Yes"
       THEN /\ questions_cache' =
                  ExpireAll(questions_cache \ SweptRows(questions_cache))
            /\ cache_log' = [key \in StoreKeys |->
                                [cache_log[key] EXCEPT !.swept = TRUE,
                                                       !.cleared = TRUE]]
       ELSE UNCHANGED <<questions_cache, cache_log>>
    /\ op' = [name |-> "clear_cache", level |-> "", topic |-> "", reply |-> reply]
    /\ ret' = PyNone
    /\ UNCHANGED qc_seq
    /\ UNCHANGED <<progressVars, settingVars, clockVars, userVars,
                   sessionVars, raceVars, genVars,
                   schemaVars, shellVars, backupVars>>

\* the cache is written, read and cleared as the hours pass, in a store whose
\* other tables are written as well
NextClear ==
    \/ \E key \in StoreKeys, ttl \in TTLs : CacheQuestions(key[1], key[2], 2, ttl)
    \/ \E key \in StoreKeys : GetCachedQuestions(key[1], key[2])
    \/ \E reply \in {"Yes", "No"} : ClearCache(reply)
    \/ topic_progress = {} /\ UpdateTopicProgress("IM1", "Daily Routines", 80, 10, 9)
    \/ game_sessions = {} /\ SaveGameSession(FaultSession)
    \/ Tick

SpecClear == Init /\ [][NextClear]_vars

\* C30: after clear_cache has been confirmed and has completed,
\* get_cached_questions returns None for every key, until cache_questions is
\* called for the key again; clear_cache changes no topic progress, user
\* progress, session or setting.
C30_ClearCacheEmptiesEveryKey ==
    [][/\ (op'.name = "get_cached_questions"
              /\ cache_log[<<op'.level, op'.topic>>].cleared) => ret' = PyNone
       /\ op'.name = "clear_cache" =>
              /\ topic_progress' = topic_progress
              /\ user_progress' = user_progress
              /\ game_sessions' = game_sessions
              /\ app_settings' = app_settings]_vars

\* a key was cached, the cache was cleared before the key's expiry time, and
\* the read of the key within that time returned None; the progress and the
\* session recorded before are in place
C30_Witness ==
    /\ op.name = "get_cached_questions"
    /\ LastCached.q = 2
    /\ LastCached.cleared
    /\ local_now < LastCached.expires
    /\ ret = PyNone
    /\ topic_progress # {}
    /\ game_sessions # {}

====
